---------------------------- MODULE Spec2Model ----------------------------
(***************************************************************************)
(* colorstory: constraint-based enumeration of colour-scheme               *)
(* configurations (lib/enumerate.js, lib/constraints.js, lib/math.js) and  *)
(* the single-slot configuration cache (lib/scheme/canonical.js).          *)
(*                                                                         *)
(* Number representation.  OKLCH lightness and chroma are kept in          *)
(* thousandths (palette files carry three decimals), hue in whole degrees. *)
(* Linear-light channel values are kept in units of 1e-5 and relative      *)
(* luminance in units of 1e-4.  A contrast ratio is kept as the pair       *)
(* <<lighter + 0.05, darker + 0.05>> and compared by cross-multiplication. *)
(* Contrast thresholds are in tenths, chroma ratios in tenths, the         *)
(* relative-contrast band in hundredths.                                   *)
(***************************************************************************)
EXTENDS Integers, Sequences, FiniteSets, TLC

VARIABLES
  colors,          \* argument of the running call: the palette colours
  mode,            \* argument of the running call: 'dark' or 'light'
  pc,              \* position of the running call
  tokenIndex,      \* backtrack's parameter at the current node
  stack,           \* the backtrack activations below the current one
  assigned,        \* the working assignment shared by all activations
  configurations,  \* enumerateConfigurations' result array
  seenIds,         \* enumerateConfigurations' set of recorded ids
  sliced,          \* history: some node of this search had more than 6 candidates
  result,          \* value returned by a direct enumerateConfigurations call
  configCache,     \* canonical.js: the module-level cache slot
  returned,        \* value returned by the last getValidConfigurations call
  enumCalls,       \* spy: number of enumerateConfigurations calls made by the cache
  ops,             \* number of cache operations started
  log,             \* history: the last three completed cache operations
  call,            \* library function being called, with its arguments
  ret,             \* what that call returned
  state,           \* editor/state.js: the shared editor state
  localStorage,    \* the browser's storage: key -> stored string
  pending,         \* the loadPaletteById calls in call order, settled or not
  lastOp,          \* history: the editor operation that completed last
  guide            \* style-guide/index.js: the module's variables and what it rendered

enumVars == <<colors, mode, pc, tokenIndex, stack, assigned, configurations, seenIds, sliced>>

cacheVars == <<configCache, returned, enumCalls, ops, log>>

libVars == <<call, ret>>

editorVars == <<state, localStorage, pending, lastOp>>

guideVars == <<guide>>

vars == <<enumVars, result, cacheVars, libVars, editorVars, guideVars>>

(***************************************************************************)
(* lib/math.js                                                             *)
(***************************************************************************)

\* srgbToLinear(v) * 1e5, rounded, for v = 0..255 (entry v+1).
LinearTable ==
  << 0, 30, 61, 91, 121, 152, 182, 212, 243, 273, 304, 335, 368, 402, 439, 478,
     518, 561, 605, 651, 700, 750, 802, 857, 913, 972, 1033, 1096, 1161, 1229, 1298, 1370,
     1444, 1521, 1600, 1681, 1764, 1850, 1938, 2029, 2122, 2217, 2315, 2416, 2519, 2624, 2732, 2843,
     2956, 3071, 3190, 3310, 3434, 3560, 3689, 3820, 3955, 4092, 4231, 4374, 4519, 4667, 4817, 4971,
     5127, 5286, 5448, 5613, 5781, 5951, 6125, 6301, 6480, 6663, 6848, 7036, 7227, 7421, 7619, 7819,
     8022, 8228, 8438, 8650, 8866, 9084, 9306, 9531, 9759, 9990, 10224, 10462, 10702, 10946, 11193, 11444,
     11697, 11954, 12214, 12477, 12744, 13014, 13287, 13563, 13843, 14126, 14413, 14703, 14996, 15293, 15593, 15896,
     16203, 16513, 16827, 17144, 17465, 17789, 18116, 18447, 18782, 19120, 19462, 19807, 20156, 20508, 20864, 21223,
     21586, 21953, 22323, 22697, 23074, 23455, 23840, 24228, 24620, 25016, 25415, 25818, 26225, 26636, 27050, 27468,
     27889, 28315, 28744, 29177, 29614, 30054, 30499, 30947, 31399, 31855, 32314, 32778, 33245, 33716, 34191, 34670,
     35153, 35640, 36131, 36625, 37124, 37626, 38133, 38643, 39157, 39676, 40198, 40724, 41254, 41789, 42327, 42869,
     43415, 43966, 44520, 45079, 45641, 46208, 46778, 47353, 47932, 48515, 49102, 49693, 50289, 50888, 51492, 52100,
     52712, 53328, 53948, 54572, 55201, 55834, 56471, 57112, 57758, 58408, 59062, 59720, 60383, 61050, 61721, 62396,
     63076, 63760, 64448, 65141, 65837, 66539, 67244, 67954, 68669, 69387, 70110, 70838, 71569, 72306, 73046, 73791,
     74540, 75294, 76052, 76815, 77582, 78354, 79130, 79910, 80695, 81485, 82279, 83077, 83880, 84687, 85499, 86316,
     87137, 87962, 88792, 89627, 90466, 91310, 92158, 93011, 93869, 94731, 95597, 96469, 97345, 98225, 99110, 100000 >>

\* Gamma decode of one sRGB channel, in units of 1e-5.
srgbToLinear(val) == LinearTable[val + 1]

\* 0.2126 R + 0.7152 G + 0.0722 B on linearised channels, in units of 1e-4.
relativeLuminance(rgb) ==
  (2126 * srgbToLinear(rgb[1]) + 7152 * srgbToLinear(rgb[2]) + 722 * srgbToLinear(rgb[3])) \div 100000

Max(a, b) == IF a >= b THEN a ELSE b

Min(a, b) == IF a <= b THEN a ELSE b

\* (lighter + 0.05) / (darker + 0.05) as the pair <<numerator, denominator>>.
contrastRatio(rgb1, rgb2) ==
  LET l1 == relativeLuminance(rgb1)
      l2 == relativeLuminance(rgb2)
  IN  << Max(l1, l2) + 500, Min(l1, l2) + 500 >>

\* ratio < bound, bound in tenths.
RatioBelow(ratio, tenths) == ratio[1] * 10 < tenths * ratio[2]

\* ratio > bound, bound in tenths.
RatioAbove(ratio, tenths) == ratio[1] * 10 > tenths * ratio[2]

\* The hue distance without the wrap at 360.
hueDifferenceNoWrap(h1, h2) == IF h1 >= h2 THEN h1 - h2 ELSE h2 - h1

\* math.js hueDifference(h1, h2).
hueDifference(h1, h2) ==
  LET diff == IF h1 >= h2 THEN h1 - h2 ELSE h2 - h1
  IN  IF diff > 180 THEN 360 - diff ELSE diff

(***************************************************************************)
(* lib/constraints.js                                                      *)
(***************************************************************************)

\* TOKEN_ORDER with textMuted ahead of textPrimary.
TOKEN_ORDER_TextMutedFirst ==
  << "bgApp", "bgSurface", "bgElevated", "textMuted", "textPrimary",
     "borderSubtle", "borderStrong", "accentSolid", "accentSoft" >>

TOKEN_ORDER ==
  << "bgApp", "bgSurface", "bgElevated", "textPrimary", "textMuted",
     "borderSubtle", "borderStrong", "accentSolid", "accentSoft" >>

\* A lightness rule that is a closure  deps => ({min: deps.X.oklch[0] + a,
\* max: deps.Y.oklch[0] + b})  is the record [minOf, minAdd, maxOf, maxAdd];
\* a static rule is the record [min, max].
DARK_MODE_CONSTRAINTS ==
  [ bgApp |->
      [ maxChroma |-> 40,
        lightness |-> [min |-> 80, max |-> 160],
        contrast |-> << >> ],
    bgSurface |->
      [ maxChroma |-> 40,
        lightness |-> [minOf |-> "bgApp", minAdd |-> 40, maxOf |-> "bgApp", maxAdd |-> 120],
        contrast |-> << >> ],
    bgElevated |->
      [ maxChroma |-> 40,
        lightness |-> [minOf |-> "bgSurface", minAdd |-> 40, maxOf |-> "bgSurface", maxAdd |-> 100],
        contrast |-> << >> ],
    textPrimary |->
      [ maxChroma |-> 50,
        lightness |-> [min |-> 850, max |-> 1000],
        contrast |-> << [against |-> "bgApp", min |-> 70],
                        [against |-> "bgSurface", min |-> 70],
                        [against |-> "bgElevated", min |-> 45] >> ],
    textMuted |->
      [ maxChroma |-> 50,
        hueSameAs |-> << "textPrimary" >>,
        lightness |-> [minOf |-> "bgApp", minAdd |-> 300, maxOf |-> "textPrimary", maxAdd |-> -100],
        contrast |-> << [against |-> "bgApp", min |-> 45],
                        [against |-> "bgSurface", min |-> 30] >>,
        contrastRatioToPrimary |-> [min |-> 60, max |-> 85, against |-> "bgApp"] ],
    borderSubtle |->
      [ maxChroma |-> 40,
        lightness |-> [minOf |-> "bgApp", minAdd |-> 50, maxOf |-> "textPrimary", maxAdd |-> -300],
        contrast |-> << [against |-> "bgApp", min |-> 12, max |-> 30],
                        [against |-> "bgSurface", min |-> 12, max |-> 30],
                        [against |-> "bgElevated", min |-> 12, max |-> 30] >> ],
    borderStrong |->
      [ maxChroma |-> 40,
        lightness |-> [minOf |-> "borderSubtle", minAdd |-> 50, maxOf |-> "textPrimary", maxAdd |-> -150],
        contrast |-> << [against |-> "bgApp", min |-> 30] >> ],
    accentSolid |->
      [ minChroma |-> 80,
        lightness |-> [min |-> 450, max |-> 800],
        contrast |-> << >> ],
    accentSoft |->
      [ minChroma |-> 40,
        chromaRange |-> [minRatio |-> 5, maxRatio |-> 8, of |-> "accentSolid"],
        hueSameAs |-> << "accentSolid" >>,
        lightness |-> [minOf |-> "bgApp", minAdd |-> 0, maxOf |-> "bgApp", maxAdd |-> 250],
        contrast |-> << [against |-> "bgApp", min |-> 15, max |-> 30] >> ] ]

LIGHT_MODE_CONSTRAINTS ==
  [ bgApp |->
      [ maxChroma |-> 40,
        lightness |-> [min |-> 920, max |-> 1000],
        contrast |-> << >> ],
    bgSurface |->
      [ maxChroma |-> 40,
        lightness |-> [minOf |-> "bgApp", minAdd |-> -120, maxOf |-> "bgApp", maxAdd |-> -40],
        contrast |-> << >> ],
    bgElevated |->
      [ maxChroma |-> 40,
        lightness |-> [minOf |-> "bgSurface", minAdd |-> -100, maxOf |-> "bgSurface", maxAdd |-> -40],
        contrast |-> << >> ],
    textPrimary |->
      [ maxChroma |-> 50,
        lightness |-> [min |-> 0, max |-> 200],
        contrast |-> << [against |-> "bgApp", min |-> 70],
                        [against |-> "bgSurface", min |-> 70],
                        [against |-> "bgElevated", min |-> 45] >> ],
    textMuted |->
      [ maxChroma |-> 50,
        hueSameAs |-> << "textPrimary" >>,
        lightness |-> [minOf |-> "textPrimary", minAdd |-> 100, maxOf |-> "bgApp", maxAdd |-> -300],
        contrast |-> << [against |-> "bgApp", min |-> 45],
                        [against |-> "bgSurface", min |-> 30] >>,
        contrastRatioToPrimary |-> [min |-> 60, max |-> 85, against |-> "bgApp"] ],
    borderSubtle |->
      [ maxChroma |-> 40,
        lightness |-> [minOf |-> "textPrimary", minAdd |-> 300, maxOf |-> "bgApp", maxAdd |-> -50],
        contrast |-> << [against |-> "bgApp", min |-> 12, max |-> 30],
                        [against |-> "bgSurface", min |-> 12, max |-> 30],
                        [against |-> "bgElevated", min |-> 12, max |-> 30] >> ],
    borderStrong |->
      [ maxChroma |-> 40,
        lightness |-> [minOf |-> "textPrimary", minAdd |-> 150, maxOf |-> "borderSubtle", maxAdd |-> -50],
        contrast |-> << [against |-> "bgApp", min |-> 30] >> ],
    accentSolid |->
      [ minChroma |-> 80,
        lightness |-> [min |-> 450, max |-> 800],
        contrast |-> << >> ],
    accentSoft |->
      [ minChroma |-> 40,
        chromaRange |-> [minRatio |-> 5, maxRatio |-> 8, of |-> "accentSolid"],
        hueSameAs |-> << "accentSolid" >>,
        lightness |-> [minOf |-> "bgApp", minAdd |-> -250, maxOf |-> "bgApp", maxAdd |-> 0],
        contrast |-> << [against |-> "bgApp", min |-> 15, max |-> 30] >> ] ]

\* const constraints = mode === 'dark' ? DARK_MODE_CONSTRAINTS : LIGHT_MODE_CONSTRAINTS
ConstraintsFor(m) == IF m = "dark" THEN DARK_MODE_CONSTRAINTS ELSE LIGHT_MODE_CONSTRAINTS

(***************************************************************************)
(* lib/enumerate.js                                                        *)
(***************************************************************************)

MAX_CONFIGURATIONS == 12

MAX_CANDIDATES_PER_TOKEN == 6

\* Mutant of LightnessRange: a dependent rule's min and max change places.
LightnessRangeSwapped(constraint, deps) ==
  LET l == constraint.lightness
  IN  IF "minOf" \in DOMAIN l
        THEN [ min |-> deps[l.maxOf].oklch[1] + l.maxAdd,
               max |-> deps[l.minOf].oklch[1] + l.minAdd ]
        ELSE l

\* typeof constraint.lightness === 'function' ? constraint.lightness(deps) : constraint.lightness
LightnessRange(constraint, deps) ==
  LET l == constraint.lightness
  IN  IF "minOf" \in DOMAIN l
        THEN [ min |-> deps[l.minOf].oklch[1] + l.minAdd,
               max |-> deps[l.maxOf].oklch[1] + l.maxAdd ]
        ELSE l

\* Mutant of ContrastReqPasses: the maximum of a requirement is never tested.
ContrastReqPassesMinOnly(color, req, deps) ==
  \/ req.against \notin DOMAIN deps
  \/ ~RatioBelow(contrastRatio(color.rgb, deps[req.against].rgb), req.min)

\* One contrast requirement of the filter loop; a requirement whose
\* dependency is not assigned is skipped (continue).
ContrastReqPasses(color, req, deps) ==
  \/ req.against \notin DOMAIN deps
  \/ LET ratio == contrastRatio(color.rgb, deps[req.against].rgb)
     IN  /\ ~RatioBelow(ratio, req.min)
         /\ ("max" \in DOMAIN req => ~RatioAbove(ratio, req.max))

\* Mutant of PassesConstraint: the hue-lock test is left out.
PassesConstraintNoHueLock(color, constraint, deps) ==
  LET L == color.oklch[1]
      C == color.oklch[2]
      lRange == LightnessRange(constraint, deps)
  IN  /\ ~("maxChroma" \in DOMAIN constraint /\ C >= constraint.maxChroma)
      /\ ~("minChroma" \in DOMAIN constraint /\ C < constraint.minChroma)
      /\ ~(lRange.min > lRange.max)
      /\ ~(L < lRange.min \/ L > lRange.max)
      /\ \A i \in 1..Len(constraint.contrast) :
            ContrastReqPasses(color, constraint.contrast[i], deps)
      /\ "chromaRange" \in DOMAIN constraint =>
            (constraint.chromaRange.of \in DOMAIN deps =>
               LET refC == deps[constraint.chromaRange.of].oklch[2]
               IN  ~(\/ C * 10 < refC * constraint.chromaRange.minRatio
                     \/ C * 10 > refC * constraint.chromaRange.maxRatio))
      /\ "contrastRatioToPrimary" \in DOMAIN constraint =>
            (({constraint.contrastRatioToPrimary.against, "textPrimary"} \subseteq DOMAIN deps) =>
               LET bg == deps[constraint.contrastRatioToPrimary.against]
                   primaryRatio == contrastRatio(deps["textPrimary"].rgb, bg.rgb)
                   thisRatio == contrastRatio(color.rgb, bg.rgb)
                   relNum == thisRatio[1] * primaryRatio[2]
                   relDen == thisRatio[2] * primaryRatio[1]
               IN  ~(\/ relNum * 100 < constraint.contrastRatioToPrimary.min * relDen
                     \/ relNum * 100 > constraint.contrastRatioToPrimary.max * relDen))

\* The predicate of colors.filter(...) in filterByConstraint.
PassesConstraint(color, constraint, deps) ==
  LET L == color.oklch[1]
      C == color.oklch[2]
      h == color.oklch[3]
      lRange == LightnessRange(constraint, deps)
  IN  /\ ~("maxChroma" \in DOMAIN constraint /\ C >= constraint.maxChroma)
      /\ ~("minChroma" \in DOMAIN constraint /\ C < constraint.minChroma)
      /\ ~(lRange.min > lRange.max)
      /\ ~(L < lRange.min \/ L > lRange.max)
      /\ \A i \in 1..Len(constraint.contrast) :
            ContrastReqPasses(color, constraint.contrast[i], deps)
      /\ "hueSameAs" \in DOMAIN constraint =>
            \A i \in 1..Len(constraint.hueSameAs) :
               LET tokenName == constraint.hueSameAs[i]
               IN  ~(tokenName \in DOMAIN deps /\ hueDifference(h, deps[tokenName].oklch[3]) > 30)
      /\ "chromaRange" \in DOMAIN constraint =>
            (constraint.chromaRange.of \in DOMAIN deps =>
               LET refC == deps[constraint.chromaRange.of].oklch[2]
               IN  ~(\/ C * 10 < refC * constraint.chromaRange.minRatio
                     \/ C * 10 > refC * constraint.chromaRange.maxRatio))
      /\ "contrastRatioToPrimary" \in DOMAIN constraint =>
            (({constraint.contrastRatioToPrimary.against, "textPrimary"} \subseteq DOMAIN deps) =>
               LET bg == deps[constraint.contrastRatioToPrimary.against]
                   primaryRatio == contrastRatio(deps["textPrimary"].rgb, bg.rgb)
                   thisRatio == contrastRatio(color.rgb, bg.rgb)
                   \* relativeRatio = thisRatio / primaryRatio, compared in hundredths
                   relNum == thisRatio[1] * primaryRatio[2]
                   relDen == thisRatio[2] * primaryRatio[1]
               IN  ~(\/ relNum * 100 < constraint.contrastRatioToPrimary.min * relDen
                     \/ relNum * 100 > constraint.contrastRatioToPrimary.max * relDen))

\* The tokens filterByConstraint looks up in deps for a constraint: the
\* tokens its lightness function reads, contrast[].against, hueSameAs,
\* chromaRange.of, and contrastRatioToPrimary.against with textPrimary.
ReferencedTokens(constraint) ==
  UNION {
    IF "minOf" \in DOMAIN constraint.lightness
      THEN {constraint.lightness.minOf, constraint.lightness.maxOf} ELSE {},
    { constraint.contrast[i].against : i \in 1..Len(constraint.contrast) },
    IF "hueSameAs" \in DOMAIN constraint
      THEN { constraint.hueSameAs[i] : i \in 1..Len(constraint.hueSameAs) } ELSE {},
    IF "chromaRange" \in DOMAIN constraint THEN {constraint.chromaRange.of} ELSE {},
    IF "contrastRatioToPrimary" \in DOMAIN constraint
      THEN {constraint.contrastRatioToPrimary.against, "textPrimary"} ELSE {} }

\* Mutant of filterByConstraint: every color is kept.
filterByConstraintKeepAll(cols, constraint, deps) == cols

filterByConstraint(cols, constraint, deps) ==
  SelectSeq(cols, LAMBDA color : PassesConstraint(color, constraint, deps))

\* `${token}:${assigned[token]?.name || '?'}`
IdPart(token, deps) ==
  token \o ":" \o (IF token \in DOMAIN deps /\ deps[token].name # "" THEN deps[token].name ELSE "?")

RECURSIVE JoinIdParts(_, _)
JoinIdParts(i, deps) ==
  IF i = 1 THEN IdPart(TOKEN_ORDER[1], deps)
  ELSE JoinIdParts(i - 1, deps) \o "|" \o IdPart(TOKEN_ORDER[i], deps)

generateConfigId(deps) == JoinIdParts(Len(TOKEN_ORDER), deps)

Swap(arr, i, j) == [arr EXCEPT ![i] = arr[j], ![j] = arr[i]]

\* Fisher-Yates from the last index down to the second: at index i any
\* j in 1..i may be drawn.  The set of all arrays the shuffle can leave.
RECURSIVE ShuffleFrom(_, _)
ShuffleFrom(arr, i) ==
  IF i <= 1 THEN {arr}
  ELSE UNION { ShuffleFrom(Swap(arr, i, j), i - 1) : j \in 1..i }

shuffleInPlace(arr) == ShuffleFrom(arr, Len(arr))

\* Mutant of CandidateLists: the loop starts at the second candidate.
CandidateListsSkipFirst(cols, constraint, deps) ==
  LET filtered == filterByConstraint(cols, constraint, deps)
  IN  IF Len(filtered) > MAX_CANDIDATES_PER_TOKEN
        THEN { SubSeq(s, 2, MAX_CANDIDATES_PER_TOKEN) : s \in shuffleInPlace(filtered) }
        ELSE { SubSeq(s, 2, Len(s)) : s \in shuffleInPlace(filtered) }

\* Mutant of CandidateLists: the candidates are never sliced.
CandidateListsNoSlice(cols, constraint, deps) ==
  shuffleInPlace(filterByConstraint(cols, constraint, deps))

\* Lines 162-170: filter, shuffle, and slice to the cap when over it.
CandidateLists(cols, constraint, deps) ==
  LET filtered == filterByConstraint(cols, constraint, deps)
  IN  IF Len(filtered) > MAX_CANDIDATES_PER_TOKEN
        THEN { SubSeq(s, 1, MAX_CANDIDATES_PER_TOKEN) : s \in shuffleInPlace(filtered) }
        ELSE shuffleInPlace(filtered)

\* Mutant of CapReached: > in place of >=.
CapReachedOffByOne(configs) == Len(configs) > MAX_CONFIGURATIONS

\* configurations.length >= MAX_CONFIGURATIONS (lines 144 and 178)
CapReached(configs) == Len(configs) >= MAX_CONFIGURATIONS

\* Mutant of AtLeaf: the leaf is taken one token early.
AtLeafEarly(idx) == idx >= Len(TOKEN_ORDER) - 1

\* tokenIndex >= TOKEN_ORDER.length (line 146)
AtLeaf(idx) == idx >= Len(TOKEN_ORDER)

\* Mutant of IsNewId: the seen-set is not consulted.
IsNewIdAlways(id, seen) == TRUE

\* !seenIds.has(id) (line 148)
IsNewId(id, seen) == id \notin seen

\* Mutant of Without: the assignment is not deleted.
WithoutKept(deps, token) == deps

\* delete assigned[tokenName] (line 176)
Without(deps, token) == [k \in (DOMAIN deps) \ {token} |-> deps[k]]

\* The state of a fresh enumerateConfigurations(cols, m) call at the entry
\* of backtrack(0, {}).
EnterEnumerate(cols, m) ==
  /\ colors' = cols
  /\ mode' = m
  /\ pc' = "enter"
  /\ tokenIndex' = 0
  /\ stack' = << >>
  /\ assigned' = << >>
  /\ configurations' = << >>
  /\ seenIds' = {}
  /\ sliced' = FALSE

\* Entry of backtrack(tokenIndex, assigned), lines 144-170: return at once
\* when the cap is reached; at a leaf record the assignment unless its id
\* was seen; otherwise filter, shuffle and cap the candidates of the token.
BacktrackEnter ==
  /\ pc = "enter"
  /\ IF CapReached(configurations)
       THEN /\ pc' = "return"
            /\ UNCHANGED <<stack, configurations, seenIds, sliced>>
       ELSE IF AtLeaf(tokenIndex)
         THEN /\ LET id == generateConfigId(assigned)
                 IN  IF IsNewId(id, seenIds)
                       THEN /\ seenIds' = seenIds \cup {id}
                            /\ configurations' =
                                 Append(configurations, [tokens |-> assigned, id |-> id])
                       ELSE UNCHANGED <<seenIds, configurations>>
              /\ pc' = "return"
              /\ UNCHANGED <<stack, sliced>>
         ELSE IF \E i \in 1..Len(colors) : "oklch" \notin DOMAIN colors[i]
         \* const [L, C, h] = color.oklch throws in the filter (line 36)
         THEN /\ pc' = "thrown"
              /\ UNCHANGED <<stack, configurations, seenIds, sliced>>
         ELSE /\ LET tokenName == TOKEN_ORDER[tokenIndex + 1]
                     constraint == ConstraintsFor(mode)[tokenName]
                 IN  /\ \E candidates \in CandidateLists(colors, constraint, assigned) :
                           stack' = Append(stack, [tokenIndex |-> tokenIndex,
                                                   tokenName |-> tokenName,
                                                   candidates |-> candidates,
                                                   pos |-> 1])
                     /\ sliced' = (\/ sliced
                                   \/ Len(filterByConstraint(colors, constraint, assigned))
                                        > MAX_CANDIDATES_PER_TOKEN)
              /\ pc' = "loop"
              /\ UNCHANGED <<configurations, seenIds>>
  /\ UNCHANGED <<colors, mode, tokenIndex, assigned, result, cacheVars>>
  /\ UNCHANGED <<libVars, editorVars, guideVars>>

\* for-loop body, lines 173-175: assign the next candidate and recurse.
BacktrackAssign ==
  /\ pc = "loop"
  /\ LET top == stack[Len(stack)]
     IN  /\ top.pos <= Len(top.candidates)
         /\ assigned' = (top.tokenName :> top.candidates[top.pos]) @@ assigned
         /\ tokenIndex' = top.tokenIndex + 1
  /\ pc' = "enter"
  /\ UNCHANGED <<colors, mode, stack, configurations, seenIds, sliced, result, cacheVars>>
  /\ UNCHANGED <<libVars, editorVars, guideVars>>

\* for-loop exhausted: backtrack returns (line 180).
BacktrackLoopEnd ==
  /\ pc = "loop"
  /\ LET top == stack[Len(stack)]
     IN  /\ top.pos > Len(top.candidates)
         /\ tokenIndex' = top.tokenIndex
  /\ stack' = SubSeq(stack, 1, Len(stack) - 1)
  /\ pc' = "return"
  /\ UNCHANGED <<colors, mode, assigned, configurations, seenIds, sliced, result, cacheVars>>
  /\ UNCHANGED <<libVars, editorVars, guideVars>>

\* After the recursive call, lines 176-178: undo the assignment, then
\* either return (cap reached) or go on with the next candidate.
BacktrackUnassign ==
  /\ pc = "return"
  /\ stack # << >>
  /\ LET top == stack[Len(stack)]
     IN  /\ assigned' = Without(assigned, top.tokenName)
         /\ tokenIndex' = top.tokenIndex
         /\ IF CapReached(configurations)
              THEN /\ stack' = SubSeq(stack, 1, Len(stack) - 1)
                   /\ pc' = "return"
              ELSE /\ stack' = [stack EXCEPT ![Len(stack)].pos = top.pos + 1]
                   /\ pc' = "loop"
  /\ UNCHANGED <<colors, mode, configurations, seenIds, sliced, result, cacheVars>>
  /\ UNCHANGED <<libVars, editorVars, guideVars>>

\* Steps of one enumerateConfigurations call, between entry and return.
Backtrack ==
  \/ BacktrackEnter
  \/ BacktrackAssign
  \/ BacktrackLoopEnd
  \/ BacktrackUnassign

\* Line 183 of a direct call: return configurations.
EnumerateReturn ==
  /\ pc = "return"
  /\ stack = << >>
  /\ result' = configurations
  /\ pc' = "done"
  /\ UNCHANGED <<colors, mode, tokenIndex, stack, assigned, configurations, seenIds, sliced, cacheVars>>
  /\ UNCHANGED <<libVars, editorVars, guideVars>>

\* Check a configuration against the contrast matrix (lines 192-211).
validateConfiguration(config, m) ==
  \A i \in 1..Len(TOKEN_ORDER) :
     LET tokenName == TOKEN_ORDER[i]
         constraint == ConstraintsFor(m)[tokenName]
     IN  /\ tokenName \in DOMAIN config.tokens
         /\ \A k \in 1..Len(constraint.contrast) :
               LET req == constraint.contrast[k]
               IN  \/ req.against \notin DOMAIN config.tokens
                   \/ LET ratio == contrastRatio(config.tokens[tokenName].rgb,
                                                 config.tokens[req.against].rgb)
                      IN  /\ ~RatioBelow(ratio, req.min)
                          /\ ("max" \in DOMAIN req => ~RatioAbove(ratio, req.max))

(***************************************************************************)
(* Inputs                                                                  *)
(***************************************************************************)

\* A Color as stored in a palette file: name, rgb, oklch = rgbToOklch(rgb).
Color(name, rgb, oklch) == [name |-> name, rgb |-> rgb, oklch |-> oklch]

Gray(name, v, l) == Color(name, <<v, v, v>>, <<l, 0, 90>>)

BasePalette ==
  << Gray("ink", 8, 134), Gray("coal", 20, 191), Gray("slate", 35, 256),
     Gray("snow", 240, 955), Gray("fog", 200, 833), Gray("ash", 70, 394),
     Gray("stone", 110, 538), Color("teal", <<0, 120, 105>>, <<513, 93, 180>>),
     Color("pine", <<0, 70, 60>>, <<353, 64, 179>>) >>

CapPalette ==
  << Gray("ink", 8, 134), Gray("coal", 20, 191), Gray("slate", 35, 256),
     Gray("snow", 240, 955), Gray("fog", 200, 833), Gray("mist", 195, 817),
     Gray("ash", 70, 394), Gray("stone", 110, 538), Gray("flint", 130, 607),
     Color("teal", <<0, 120, 105>>, <<513, 93, 180>>),
     Color("lagoon", <<0, 120, 120>>, <<519, 89, 195>>),
     Color("pine", <<0, 70, 60>>, <<353, 64, 179>>),
     Color("moss", <<0, 70, 70>>, <<357, 61, 195>>) >>

DupNamePalette ==
  << Gray("ink", 8, 134), Gray("coal", 20, 191), Gray("slate", 35, 256),
     Gray("snow", 240, 955), Gray("fog", 200, 833), Gray("ash", 70, 394),
     Gray("stone", 110, 538), Color("teal", <<0, 120, 105>>, <<513, 93, 180>>),
     Color("pine", <<0, 70, 60>>, <<353, 64, 179>>),
     Color("pine", <<0, 70, 70>>, <<357, 61, 195>>) >>

SevenPalette ==
  << Gray("ink", 8, 134), Gray("coal", 20, 191), Gray("slate", 35, 256),
     Gray("snow", 240, 955), Gray("fog", 200, 833), Gray("ash", 70, 394),
     Gray("stone", 110, 538), Color("brick", <<170, 90, 90>>, <<562, 105, 21>>),
     Color("orange", <<200, 120, 40>>, <<647, 134, 61>>),
     Color("yellow", <<180, 160, 40>>, <<703, 134, 99>>),
     Color("teal", <<0, 120, 105>>, <<513, 93, 180>>),
     Color("blue", <<60, 100, 200>>, <<529, 162, 265>>),
     Color("purple", <<140, 80, 200>>, <<558, 182, 304>>),
     Color("pink", <<200, 80, 160>>, <<613, 177, 343>>),
     Color("pine", <<0, 70, 60>>, <<353, 64, 179>>) >>

LightPalette ==
  << Gray("paper", 245, 970), Gray("linen", 225, 910), Gray("pearl", 205, 848),
     Gray("jet", 10, 145), Gray("iron", 45, 297), Gray("cloud", 165, 722),
     Gray("steel", 120, 573), Color("teal", <<0, 120, 105>>, <<513, 93, 180>>),
     Color("lagoon", <<0, 120, 120>>, <<519, 89, 195>>),
     Color("mint", <<120, 190, 180>>, <<752, 72, 184>>) >>

EmptyPalette == << >>

\* BasePalette with a second accentSolid and a second accentSoft colour, under
\* four different names that hold the characters generateConfigId joins with.
ClashPalette ==
  << Gray("ink", 8, 134), Gray("coal", 20, 191), Gray("slate", 35, 256),
     Gray("snow", 240, 955), Gray("fog", 200, 833), Gray("ash", 70, 394),
     Gray("stone", 110, 538),
     Color("sea", <<0, 120, 105>>, <<513, 93, 180>>),
     Color("sea|accentSoft:sky", <<0, 120, 120>>, <<519, 89, 195>>),
     Color("fir", <<0, 70, 60>>, <<353, 64, 179>>),
     Color("sky|accentSoft:fir", <<0, 70, 70>>, <<357, 61, 195>>) >>

Palettes ==
  { BasePalette, CapPalette, DupNamePalette, SevenPalette, LightPalette, EmptyPalette,
    ClashPalette }


Modes == {"dark", "light"}

(***************************************************************************)
(* lib/scheme/canonical.js                                                 *)
(***************************************************************************)

\* null, and a string value, of a cache field.
Null == << "null" >>

Str(x) == << "string", x >>

\* An array object: its identity (the number of the cache operation that
\* created it, 0 for the array of the module initialiser) and its elements.
Array(ref, items) == [ref |-> ref, items |-> items]

\* let configCache = { paletteHash: null, mode: null, configurations: [] }
InitialConfigCache ==
  [paletteHash |-> Null, mode |-> Null, configurations |-> Array(0, << >>)]

\* The colour names of the model's palettes in the order of JavaScript's
\* default sort (UTF-16 code units).
NameOrder ==
  << "ash", "blue", "brick", "cloud", "coal", "flint", "fog", "ink", "iron", "jet",
     "lagoon", "linen", "mint", "mist", "moss", "orange", "paper", "pearl", "pine",
     "pink", "purple", "slate", "snow", "steel", "stone", "teal", "yellow" >>

NameRank(name) == CHOOSE i \in 1..Len(NameOrder) : NameOrder[i] = name

\* Insert name into a sorted sequence of names.
RECURSIVE InsertSorted(_, _)
InsertSorted(name, sorted) ==
  IF sorted = << >> THEN << name >>
  ELSE IF NameRank(name) <= NameRank(Head(sorted)) THEN << name >> \o sorted
  ELSE << Head(sorted) >> \o InsertSorted(name, Tail(sorted))

\* names.sort()
RECURSIVE SortNames(_)
SortNames(names) ==
  IF names = << >> THEN << >> ELSE InsertSorted(Head(names), SortNames(Tail(names)))

\* names.join(',')
RECURSIVE JoinNames(_)
JoinNames(names) ==
  IF names = << >> THEN ""
  ELSE IF Len(names) = 1 THEN names[1]
  ELSE names[1] \o "," \o JoinNames(Tail(names))

\* colors.map(c => c.name)
NamesOf(cols) == [i \in 1..Len(cols) |-> cols[i].name]

\* Mutant of hashPalette: the names are joined unsorted.
hashPaletteUnsorted(cols) == JoinNames(NamesOf(cols))

\* colors.map(c => c.name).sort().join(',')
hashPalette(cols) == JoinNames(SortNames(NamesOf(cols)))

\* Mutant of CacheMiss: && in place of ||.
CacheMissBothDiffer(cache, hash, m) == cache.paletteHash # Str(hash) /\ cache.mode # Str(m)

\* configCache.paletteHash !== hash || configCache.mode !== mode
CacheMiss(cache, hash, m) == cache.paletteHash # Str(hash) \/ cache.mode # Str(m)

\* Mutant of ClearedCache: the key fields are left as they were.
ClearedCacheKeepsKey(cache, ref) == [cache EXCEPT !.configurations = Array(ref, << >>)]

\* The slot after clearConfigCache(); ref identifies the fresh empty array.
ClearedCache(cache, ref) ==
  [paletteHash |-> Null, mode |-> Null, configurations |-> Array(ref, << >>)]

\* Bound on the number of cache operations in one behaviour.
MaxCalls == 3

\* The history keeps the last three completed operations.
Logged(entry) == IF Len(log) < 3 THEN Append(log, entry) ELSE Append(Tail(log), entry)

\* getValidConfigurations(cols, m), lines 360-366 on a miss: the key is
\* stored, then enumerateConfigurations(cols, m) is called.
GetValidConfigurationsMiss(cols, m) ==
  /\ pc = "idle"
  /\ ops < MaxCalls
  /\ CacheMiss(configCache, hashPalette(cols), m)
  /\ configCache' = [configCache EXCEPT !.paletteHash = Str(hashPalette(cols)), !.mode = Str(m)]
  /\ enumCalls' = enumCalls + 1
  /\ ops' = ops + 1
  /\ EnterEnumerate(cols, m)
  /\ UNCHANGED <<result, returned, log>>
  /\ UNCHANGED <<libVars, editorVars, guideVars>>

\* getValidConfigurations, lines 366-369 after enumerateConfigurations has
\* returned: its array is stored in the slot and returned.
GetValidConfigurationsStore ==
  /\ pc = "return"
  /\ stack = << >>
  /\ configCache' = [configCache EXCEPT !.configurations = Array(ops, configurations)]
  /\ returned' = Array(ops, configurations)
  /\ log' = Logged([op |-> "get", colors |-> colors, mode |-> mode, calls |-> enumCalls,
                    ref |-> ops, items |-> configurations])
  /\ pc' = "idle"
  /\ UNCHANGED <<colors, mode, tokenIndex, stack, assigned, configurations, seenIds, sliced,
                 result, enumCalls, ops>>
  /\ UNCHANGED <<libVars, editorVars, guideVars>>

\* getValidConfigurations, line 366 when enumerateConfigurations throws: the
\* exception leaves getValidConfigurations; the key stored at lines 364-365
\* stays, and so does the array stored before.
GetValidConfigurationsThrow ==
  /\ pc = "thrown"
  /\ log' = Logged([op |-> "throw", colors |-> colors, mode |-> mode, calls |-> enumCalls,
                    ref |-> configCache.configurations.ref,
                    items |-> configCache.configurations.items])
  /\ pc' = "idle"
  /\ UNCHANGED <<colors, mode, tokenIndex, stack, assigned, configurations, seenIds, sliced,
                 result, configCache, returned, enumCalls, ops>>
  /\ UNCHANGED <<libVars, editorVars, guideVars>>

\* getValidConfigurations(cols, m), lines 360-369 on a hit: the stored
\* array is returned.
GetValidConfigurationsHit(cols, m) ==
  /\ pc = "idle"
  /\ ops < MaxCalls
  /\ ~CacheMiss(configCache, hashPalette(cols), m)
  /\ returned' = configCache.configurations
  /\ ops' = ops + 1
  /\ colors' = cols
  /\ mode' = m
  /\ log' = Logged([op |-> "get", colors |-> cols, mode |-> m, calls |-> enumCalls,
                    ref |-> configCache.configurations.ref,
                    items |-> configCache.configurations.items])
  /\ UNCHANGED <<pc, tokenIndex, stack, assigned, configurations, seenIds, sliced,
                 result, configCache, enumCalls>>
  /\ UNCHANGED <<libVars, editorVars, guideVars>>

\* clearConfigCache(), lines 375-379.  The log entry keeps the identity and
\* the elements of the array that was stored before the clear.
ClearConfigCache ==
  /\ pc = "idle"
  /\ ops < MaxCalls
  /\ ops' = ops + 1
  /\ configCache' = ClearedCache(configCache, ops + 1)
  /\ log' = Logged([op |-> "clear", colors |-> colors, mode |-> mode, calls |-> enumCalls,
                    ref |-> configCache.configurations.ref,
                    items |-> configCache.configurations.items])
  /\ UNCHANGED <<enumVars, result, returned, enumCalls>>
  /\ UNCHANGED <<libVars, editorVars, guideVars>>

\* BasePalette with its colours in another order.
ReorderedBasePalette ==
  << BasePalette[9], BasePalette[8], BasePalette[7], BasePalette[6], BasePalette[5],
     BasePalette[4], BasePalette[3], BasePalette[2], BasePalette[1] >>

\* The names of BasePalette with another value for "ink": no colour of it is
\* dark enough for the dark bgApp.
RecolouredBasePalette ==
  << Gray("ink", 35, 256), Gray("coal", 20, 191), Gray("slate", 35, 256),
     Gray("snow", 240, 955), Gray("fog", 200, 833), Gray("ash", 70, 394),
     Gray("stone", 110, 538), Color("teal", <<0, 120, 105>>, <<513, 93, 180>>),
     Color("pine", <<0, 70, 60>>, <<353, 64, 179>>) >>

\* BasePalette and one more color, which has no oklch.
NoOklchPalette == Append(BasePalette, [name |-> "mist", rgb |-> << 180, 180, 180 >>])

\* Palettes handed to getValidConfigurations.
CachePalettes ==
  { BasePalette, ReorderedBasePalette, RecolouredBasePalette, DupNamePalette,
    EmptyPalette, NoOklchPalette }

(***************************************************************************)
(* Specifications                                                          *)
(***************************************************************************)

\* No library function has been called.
LibIdle ==
  /\ call = [fn |-> "none"]
  /\ ret = Null

\* editor/state.js createEmptyPalette(), lines 46-54.
createEmptyPalette ==
  [id |-> "", name |-> "", created |-> "today", tags |-> Null, colors |-> << >>]

\* editor/state.js after loading (lines 13-40) with nothing stored in the
\* browser and no load under way.
EditorIdle ==
  /\ state = [palette |-> createEmptyPalette, mode |-> "dark"]
  /\ localStorage = {}
  /\ pending = << >>
  /\ lastOp = "none"

\* let selectedConfigIndex = null: no configuration is selected.
NullIndex == 0 - 1

\* style-guide/index.js after loading (lines 12-40), before init() has
\* fetched the palette: no palette, no scheme, nothing rendered.
GuideIdle ==
  guide = [phase |-> "loading", palette |-> << >>, mode |-> "light", disabledColors |-> {},
           validConfigurations |-> << >>, selectedConfigIndex |-> NullIndex,
           schemeOverrides |-> << >>, cachedScheme |-> << >>, scheme |-> << >>]

\* A direct call enumerateConfigurations(colors, mode), as the tests make.
Init ==
  /\ colors \in Palettes
  /\ mode \in Modes
  /\ pc = "enter"
  /\ tokenIndex = 0
  /\ stack = << >>
  /\ assigned = << >>
  /\ configurations = << >>
  /\ seenIds = {}
  /\ sliced = FALSE
  /\ result = << >>
  /\ configCache = InitialConfigCache
  /\ returned = Array(0, << >>)
  /\ enumCalls = 0
  /\ ops = 0
  /\ log = << >>
  /\ LibIdle
  /\ EditorIdle
  /\ GuideIdle

Next ==
  \/ Backtrack
  \/ EnumerateReturn

Spec == Init /\ [][Next]_vars

\* The module after loading, before any cache operation.
CacheInit ==
  /\ colors = << >>
  /\ mode = "dark"
  /\ pc = "idle"
  /\ tokenIndex = 0
  /\ stack = << >>
  /\ assigned = << >>
  /\ configurations = << >>
  /\ seenIds = {}
  /\ sliced = FALSE
  /\ result = << >>
  /\ configCache = InitialConfigCache
  /\ returned = Array(0, << >>)
  /\ enumCalls = 0
  /\ ops = 0
  /\ log = << >>
  /\ LibIdle
  /\ EditorIdle
  /\ GuideIdle

CacheNext ==
  \/ \E cols \in CachePalettes, m \in Modes : GetValidConfigurationsMiss(cols, m)
  \/ \E cols \in CachePalettes, m \in Modes : GetValidConfigurationsHit(cols, m)
  \/ Backtrack
  \/ GetValidConfigurationsStore
  \/ GetValidConfigurationsThrow
  \/ ClearConfigCache

CacheSpec == CacheInit /\ [][CacheNext]_vars

(***************************************************************************)
(* What the constraint table demands of a complete assignment, stated      *)
(* directly from lib/constraints.js and independently of the filter.       *)
(***************************************************************************)

TokenSet == { TOKEN_ORDER[i] : i \in 1..Len(TOKEN_ORDER) }

\* a / b >= tenths / 10
RatioAtLeast(ratio, tenths) == ratio[1] * 10 >= tenths * ratio[2]

\* a / b <= tenths / 10
RatioAtMost(ratio, tenths) == ratio[1] * 10 <= tenths * ratio[2]

\* The colour bound to token t in tokens meets every rule the table of mode
\* m gives for t, read against the other colours of tokens.
TokenSatisfied(t, tokens, m) ==
  LET k == ConstraintsFor(m)[t]
      c == tokens[t]
      lmin == IF "minOf" \in DOMAIN k.lightness
                THEN tokens[k.lightness.minOf].oklch[1] + k.lightness.minAdd
                ELSE k.lightness.min
      lmax == IF "maxOf" \in DOMAIN k.lightness
                THEN tokens[k.lightness.maxOf].oklch[1] + k.lightness.maxAdd
                ELSE k.lightness.max
  IN  /\ "maxChroma" \in DOMAIN k => c.oklch[2] < k.maxChroma
      /\ "minChroma" \in DOMAIN k => c.oklch[2] >= k.minChroma
      /\ lmin <= c.oklch[1]
      /\ c.oklch[1] <= lmax
      /\ \A i \in 1..Len(k.contrast) :
            LET ratio == contrastRatio(c.rgb, tokens[k.contrast[i].against].rgb)
            IN  /\ RatioAtLeast(ratio, k.contrast[i].min)
                /\ "max" \in DOMAIN k.contrast[i] => RatioAtMost(ratio, k.contrast[i].max)
      /\ "hueSameAs" \in DOMAIN k =>
            \A i \in 1..Len(k.hueSameAs) :
               hueDifference(c.oklch[3], tokens[k.hueSameAs[i]].oklch[3]) <= 30
      /\ "chromaRange" \in DOMAIN k =>
            LET refC == tokens[k.chromaRange.of].oklch[2]
            IN  /\ c.oklch[2] * 10 >= refC * k.chromaRange.minRatio
                /\ c.oklch[2] * 10 <= refC * k.chromaRange.maxRatio
      /\ "contrastRatioToPrimary" \in DOMAIN k =>
            LET bg == tokens[k.contrastRatioToPrimary.against]
                primaryRatio == contrastRatio(tokens["textPrimary"].rgb, bg.rgb)
                thisRatio == contrastRatio(c.rgb, bg.rgb)
            IN  /\ thisRatio[1] * primaryRatio[2] * 100
                     >= k.contrastRatioToPrimary.min * thisRatio[2] * primaryRatio[1]
                /\ thisRatio[1] * primaryRatio[2] * 100
                     <= k.contrastRatioToPrimary.max * thisRatio[2] * primaryRatio[1]

ColorsOf(cols) == { cols[i] : i \in 1..Len(cols) }

\* The assignments of palette colours to the first i tokens of TOKEN_ORDER
\* in which every bound token is satisfied.
RECURSIVE ValidPrefixes(_, _, _)
ValidPrefixes(i, cols, m) ==
  IF i = 0 THEN { << >> }
  ELSE { (TOKEN_ORDER[i] :> c) @@ a :
           <<a, c>> \in { x \in ValidPrefixes(i - 1, cols, m) \X ColorsOf(cols) :
                            TokenSatisfied(TOKEN_ORDER[i], (TOKEN_ORDER[i] :> x[2]) @@ x[1], m) } }

ValidAssignments(cols, m) == ValidPrefixes(Len(TOKEN_ORDER), cols, m)

Items(seq) == { seq[i] : i \in 1..Len(seq) }

(***************************************************************************)
(* Claims                                                                  *)
(***************************************************************************)

\* C1: every Configuration returned by enumerateConfigurations(colors, mode)
\* makes validateConfiguration(config, mode) return true.
C1_ReturnedConfigsValidate ==
  pc = "done" => \A config \in Items(result) : validateConfiguration(config, mode)

C1_Witness ==
  /\ pc = "done"
  /\ colors = BasePalette
  /\ mode = "dark"
  /\ Len(result) = 1
  /\ validateConfiguration(result[1], mode)

\* C2: the enumerator never holds or returns more than 12 Configurations.
C2_AtMostTwelve ==
  /\ Len(configurations) <= 12
  /\ Len(result) <= 12

\* The cap was needed: 12 recorded, returned, and the palette has more.
C2_Witness ==
  /\ pc = "done"
  /\ Len(result) = 12
  /\ Cardinality(ValidAssignments(colors, mode)) > 12

\* C3: no two Configurations of one list have the same canonical id, also
\* when several palette colours share a name.
C3_DistinctIds ==
  /\ \A i, j \in 1..Len(configurations) :
        i # j => configurations[i].id # configurations[j].id
  /\ \A i, j \in 1..Len(result) : i # j => result[i].id # result[j].id

\* A second full assignment whose id was already seen has just been visited
\* and was not recorded.
C3_Witness ==
  /\ pc = "return"
  /\ DOMAIN assigned = TokenSet
  /\ generateConfigId(assigned) \in seenIds
  /\ \A config \in Items(configurations) : config.tokens # assigned

\* C4: in every emitted Configuration each token's colour satisfies the
\* token's whole constraint for the mode, checked against the tokens of that
\* same Configuration.
C4_EmittedConfigsSatisfyTable ==
  \A config \in Items(configurations) \cup Items(result) :
     \A t \in TokenSet : TokenSatisfied(t, config.tokens, mode)

C4_Witness ==
  /\ pc = "done"
  /\ mode = "light"
  /\ Len(result) = 2
  /\ \A t \in TokenSet : TokenSatisfied(t, result[2].tokens, mode)

C6_TenTokensClaimed ==
  (pc = "done" /\ mode = "dark") =>
     \A config \in Items(result) :
        (TokenSet \cup {"textOnAccent"}) \subseteq DOMAIN config.tokens

NameSet(cols) == { cols[i].name : i \in 1..Len(cols) }

\* How many colours of the palette carry the name.
NameCount(cols, name) == Cardinality({ i \in 1..Len(cols) : cols[i].name = name })

\* The two palettes carry the same names, each the same number of times.
SameNames(a, b) ==
  \A name \in NameSet(a) \cup NameSet(b) : NameCount(a, name) = NameCount(b, name)

\* The key a lookup asks for: the sorted, comma-joined names and the mode.
KeyOf(entry) == << hashPalette(entry.colors), entry.mode >>

\* C8: after clearConfigCache() the next getValidConfigurations call invokes
\* the enumerator again and does not return the array that was stored
\* before the clear.
C8_ClearForcesRecompute ==
  \A i \in 1..(Len(log) - 1) :
     (log[i].op = "clear" /\ log[i + 1].op = "get") =>
        /\ log[i + 1].calls = log[i].calls + 1
        /\ log[i + 1].ref # log[i].ref

\* A non-empty list was cached for a key, the cache was cleared, and the
\* same palette and mode were looked up again and enumerated again.
C8_Witness ==
  /\ pc = "idle"
  /\ Len(log) = 3
  /\ log[1].op = "get" /\ log[2].op = "clear" /\ log[3].op = "get"
  /\ log[1].colors = log[3].colors /\ log[1].mode = log[3].mode
  /\ log[1].items # << >>
  /\ log[2].ref = log[1].ref
  /\ log[3].calls = 2
  /\ log[3].ref # log[1].ref

\* C9 as stated: a lookup that directly follows a lookup of the same set of
\* colour names and the same mode does not invoke the enumerator and returns
\* the very array the first one returned, unchanged.
C9_SameNameSetServedFromCache ==
  \A i \in 1..(Len(log) - 1) :
     (/\ log[i].op = "get"
      /\ log[i + 1].op = "get"
      /\ NameSet(log[i].colors) = NameSet(log[i + 1].colors)
      /\ log[i].mode = log[i + 1].mode) =>
        /\ log[i + 1].calls = log[i].calls
        /\ log[i + 1].ref = log[i].ref
        /\ log[i + 1].items = log[i].items

\* C9 amended: a lookup that directly follows a lookup of the same colour
\* names, each occurring the same number of times, and the same mode does
\* not invoke the enumerator and returns the very array the first one
\* returned, unchanged, whatever the order of the colours.
C9_RepeatLookupServedFromCache ==
  \A i \in 1..(Len(log) - 1) :
     (/\ log[i].op = "get"
      /\ log[i + 1].op = "get"
      /\ SameNames(log[i].colors, log[i + 1].colors)
      /\ log[i].mode = log[i + 1].mode) =>
        /\ log[i + 1].calls = log[i].calls
        /\ log[i + 1].ref = log[i].ref
        /\ log[i + 1].items = log[i].items

\* The second lookup passed the same colours in another order and got the
\* stored non-empty list.
C9_Witness ==
  /\ pc = "idle"
  /\ Len(log) >= 2
  /\ log[1].op = "get" /\ log[2].op = "get"
  /\ log[1].colors # log[2].colors
  /\ SameNames(log[1].colors, log[2].colors)
  /\ log[1].mode = log[2].mode
  /\ log[2].items # << >>
  /\ log[2].calls = log[1].calls
  /\ returned = configCache.configurations

\* C10: the cache is a single slot.  A lookup of A, then of a different key
\* B, then of A again invokes the enumerator for the third lookup and puts a
\* new array in the slot; and the stored key is that of the most recent
\* lookup since the last clear (unset when there is none).
C10_SingleSlot ==
  /\ (/\ Len(log) = 3
      /\ \A i \in 1..3 : log[i].op = "get"
      /\ KeyOf(log[1]) = KeyOf(log[3])
      /\ KeyOf(log[1]) # KeyOf(log[2])) =>
        /\ log[3].calls = log[2].calls + 1
        /\ log[3].ref \notin {log[1].ref, log[2].ref}
        /\ pc = "idle" => configCache.configurations.ref = log[3].ref
  /\ pc = "idle" =>
        IF log # << >> /\ log[Len(log)].op \in {"get", "throw"}
          THEN /\ configCache.paletteHash = Str(hashPalette(log[Len(log)].colors))
               /\ configCache.mode = Str(log[Len(log)].mode)
          ELSE /\ configCache.paletteHash = Null
               /\ configCache.mode = Null
  /\ pc # "idle" =>
        /\ configCache.paletteHash = Str(hashPalette(colors))
        /\ configCache.mode = Str(mode)

\* A (dark), B (the same palette, light), A again: three enumerator calls.
C10_Witness ==
  /\ pc = "idle"
  /\ Len(log) = 3
  /\ \A i \in 1..3 : log[i].op = "get"
  /\ log[1].colors = log[2].colors
  /\ log[1].mode # log[2].mode
  /\ KeyOf(log[1]) = KeyOf(log[3])
  /\ log[3].calls = 3
  /\ log[1].items # << >>
  /\ configCache.configurations.ref = 3

\* The colour lies in the chroma/lightness band of the dark bgApp.
InDarkBgAppBand(color) ==
  LET k == DARK_MODE_CONSTRAINTS["bgApp"]
  IN  /\ color.oklch[2] < k.maxChroma
      /\ color.oklch[1] >= k.lightness.min
      /\ color.oklch[1] <= k.lightness.max

NoDarkBgAppColor(cols) == \A i \in 1..Len(cols) : ~InDarkBgAppBand(cols[i])

\* C11 (as claimed; refuted by the code): a getValidConfigurations call in
\* dark mode with a palette none of whose colours lies in the bgApp band
\* returns an empty list.
C11_NoBgAppMeansEmptyClaimed ==
  \A i \in 1..Len(log) :
     (log[i].op = "get" /\ log[i].mode = "dark" /\ NoDarkBgAppColor(log[i].colors)) =>
        log[i].items = << >>

(***************************************************************************)
(* lib/colors.js and lib/validate.js.  L and C are in thousandths.         *)
(***************************************************************************)

TONE == [DARK_MAX |-> 350, LIGHT_MIN |-> 750]

CHROMA == [NEUTRAL_MAX |-> 40, STRONG_MIN |-> 80]

MINIMUMS ==
  [darkNeutrals |-> 2, midNeutrals |-> 2, lightNeutrals |-> 2, totalNeutrals |-> 6,
   strongAccents |-> 1, mutedAccents |-> 1, totalAccents |-> 2, totalColors |-> 12]

\* validate.js classifyColor(color), lines 35-50.
classifyColor(color) ==
  LET L == color.oklch[1]
      C == color.oklch[2]
      isDark == L <= TONE.DARK_MAX
      isLight == L >= TONE.LIGHT_MIN
  IN  [isDark |-> isDark, isMid |-> ~isDark /\ ~isLight, isLight |-> isLight,
       isNeutral |-> C < CHROMA.NEUTRAL_MAX,
       isMuted |-> C >= CHROMA.NEUTRAL_MAX /\ C < CHROMA.STRONG_MIN,
       isStrong |-> C >= CHROMA.STRONG_MIN]

\* The test of line 82 fails: color.oklch is an array of three elements.
\* A colour without an oklch property is skipped.
HasOklchTriple(color) ==
  /\ "oklch" \in DOMAIN color
  /\ Len(color.oklch) = 3

\* One iteration of the loop of lines 81-98.
CountColor(acc, color) ==
  IF ~HasOklchTriple(color)
    THEN [acc EXCEPT !.warnings = Append(@, "missing valid oklch values")]
    ELSE LET c == classifyColor(color)
         IN  IF c.isNeutral
               THEN IF c.isDark THEN [acc EXCEPT !.counts.darkNeutrals = @ + 1]
                    ELSE IF c.isMid THEN [acc EXCEPT !.counts.midNeutrals = @ + 1]
                    ELSE IF c.isLight THEN [acc EXCEPT !.counts.lightNeutrals = @ + 1]
                    ELSE acc
               ELSE IF c.isStrong THEN [acc EXCEPT !.counts.strongAccents = @ + 1]
               ELSE IF c.isMuted THEN [acc EXCEPT !.counts.mutedAccents = @ + 1]
               ELSE acc

RECURSIVE CountColors(_, _, _)
CountColors(acc, cols, i) ==
  IF i > Len(cols) THEN acc ELSE CountColors(CountColor(acc, cols[i]), cols, i + 1)

\* The minimum checks with the missing muted accent reported as an error.
MinimumErrorsMutedRequired(counts) ==
  (IF counts.total < MINIMUMS.totalColors THEN <<"totalColors">> ELSE << >>)
  \o (IF counts.darkNeutrals < MINIMUMS.darkNeutrals THEN <<"darkNeutrals">> ELSE << >>)
  \o (IF counts.midNeutrals < MINIMUMS.midNeutrals THEN <<"midNeutrals">> ELSE << >>)
  \o (IF counts.lightNeutrals < MINIMUMS.lightNeutrals THEN <<"lightNeutrals">> ELSE << >>)
  \o (IF counts.strongAccents < MINIMUMS.strongAccents THEN <<"strongAccents">> ELSE << >>)
  \o (IF counts.mutedAccents < MINIMUMS.mutedAccents THEN <<"mutedAccents">> ELSE << >>)

\* The errors of lines 101-119, each named by the minimum it reports.
MinimumErrors(counts) ==
  (IF counts.total < MINIMUMS.totalColors THEN <<"totalColors">> ELSE << >>)
  \o (IF counts.darkNeutrals < MINIMUMS.darkNeutrals THEN <<"darkNeutrals">> ELSE << >>)
  \o (IF counts.midNeutrals < MINIMUMS.midNeutrals THEN <<"midNeutrals">> ELSE << >>)
  \o (IF counts.lightNeutrals < MINIMUMS.lightNeutrals THEN <<"lightNeutrals">> ELSE << >>)
  \o (IF counts.strongAccents < MINIMUMS.strongAccents THEN <<"strongAccents">> ELSE << >>)

\* validatePalette(palette), lines 57-131.  A palette without a colors
\* array has no such property.
validatePalette(palette) ==
  IF "colors" \notin DOMAIN palette
    THEN [valid |-> FALSE, errors |-> <<"Palette has no colors array">>,
          warnings |-> << >>, counts |-> << >>]
    ELSE LET start == [warnings |-> << >>,
                       counts |-> [total |-> Len(palette.colors), darkNeutrals |-> 0,
                                   midNeutrals |-> 0, lightNeutrals |-> 0,
                                   strongAccents |-> 0, mutedAccents |-> 0]]
             done == CountColors(start, palette.colors, 1)
             errors == MinimumErrors(done.counts)
             warnings ==
               done.warnings
               \o (IF done.counts.mutedAccents < MINIMUMS.mutedAccents
                     THEN <<"mutedAccents">> ELSE << >>)
         IN  [valid |-> errors = << >>, errors |-> errors, warnings |-> warnings,
              counts |-> done.counts]

\* Colours for the validator, as the tests build them: one name, one rgb.
TestColor(L, C) == [name |-> "test", rgb |-> <<128, 128, 128>>, oklch |-> <<L, C, 0>>]

\* A colour of a palette file that lacks its oklch entry.
NoOklchColor == [name |-> "test", rgb |-> <<128, 128, 128>>]

\* n colours taken in turn from the samples.
Repeat(samples, n) == [i \in 1..n |-> samples[((i - 1) % Len(samples)) + 1]]

DarkNeutralSamples == << TestColor(350, 39), TestColor(200, 0) >>
MidNeutralSamples == << TestColor(351, 39), TestColor(749, 0) >>
LightNeutralSamples == << TestColor(750, 39), TestColor(900, 0) >>
StrongSamples == << TestColor(500, 80), TestColor(200, 150), TestColor(900, 200) >>
MutedSamples == << TestColor(500, 40), TestColor(300, 79) >>

NeutralCounts == {1, 2, 3}
StrongCounts == {0, 1, 5}
MutedCounts == {0, 1, 3}
MissingCounts == {0, 1}

\* A palette handed to validatePalette, given how many colours of each
\* kind it holds.
ValidatorPalette(nd, nm, nl, ns, nu, nx) ==
  [name |-> "p",
   colors |-> Repeat(DarkNeutralSamples, nd) \o Repeat(MidNeutralSamples, nm)
              \o Repeat(LightNeutralSamples, nl) \o Repeat(StrongSamples, ns)
              \o Repeat(MutedSamples, nu) \o Repeat(<<NoOklchColor>>, nx)]

\* A palette file without a colors array.
NoColorsPalette == [name |-> "p"]

\* Neither the enumerator nor the cache is in use.
EnumeratorIdle ==
  /\ colors = << >>
  /\ mode = "dark"
  /\ pc = "idle"
  /\ tokenIndex = 0
  /\ stack = << >>
  /\ assigned = << >>
  /\ configurations = << >>
  /\ seenIds = {}
  /\ sliced = FALSE
  /\ result = << >>
  /\ configCache = InitialConfigCache
  /\ returned = Array(0, << >>)
  /\ enumCalls = 0
  /\ ops = 0
  /\ log = << >>

\* A call validatePalette(palette).
CallValidatePalette(palette) ==
  /\ LibIdle
  /\ call' = [fn |-> "validatePalette", palette |-> palette]
  /\ ret' = validatePalette(palette)
  /\ UNCHANGED <<enumVars, result, cacheVars, editorVars, guideVars>>

\* A call validatePalette of a palette built from the counts.
CallValidateCounted ==
  /\ LibIdle
  /\ \E nd \in NeutralCounts, nm \in NeutralCounts, nl \in NeutralCounts,
        ns \in StrongCounts, nu \in MutedCounts, nx \in MissingCounts :
          CallValidatePalette(ValidatorPalette(nd, nm, nl, ns, nu, nx))

\* A call validatePalette of a palette without a colors array.
CallValidateNoColors == CallValidatePalette(NoColorsPalette)

DESTRUCTIVE_HUE == [min |-> 350, max |-> 40, wrap |-> TRUE]

\* colors.js hueInRange(h, range), lines 96-102.
hueInRange(h, range) ==
  IF range.wrap THEN h >= range.min \/ h <= range.max
  ELSE h >= range.min /\ h <= range.max

\* colors.js classifyPalette, lines 143-144 and 160-164: the colours pushed
\* to destructiveCandidates, in palette order (C >= 0.02, red hue).
DestructiveCandidates(cols) ==
  SelectSeq(cols, LAMBDA color : /\ color.oklch[2] >= 20
                                 /\ hueInRange(color.oklch[3], DESTRUCTIVE_HUE))

\* Array.prototype.sort is stable: the element goes behind every element
\* already placed that the comparator does not put after it.
RECURSIVE InsertByChroma(_, _, _)
InsertByChroma(color, sorted, direction) ==
  IF sorted = << >> THEN << color >>
  ELSE LET diff == Head(sorted).oklch[2] - color.oklch[2]
           keep == IF direction = "asc" THEN diff <= 0 ELSE diff >= 0
       IN  IF keep THEN << Head(sorted) >> \o InsertByChroma(color, Tail(sorted), direction)
           ELSE << color >> \o sorted

\* colors.js sortByChroma(colors, direction), lines 270-275.
RECURSIVE sortByChroma(_, _)
sortByChroma(cols, direction) ==
  IF cols = << >> THEN << >>
  ELSE InsertByChroma(cols[Len(cols)],
                      sortByChroma(SubSeq(cols, 1, Len(cols) - 1), direction), direction)

\* colors.js pickRandom(arr), lines 180-183: every value it can return;
\* of an empty array, undefined (no value).
pickRandom(arr) == { arr[i] : i \in 1..Len(arr) }

\* Math.ceil(n / 2)
CeilHalf(n) == (n + 1) \div 2

DEFAULT_DESTRUCTIVE ==
  [name |-> "default-destructive", rgb |-> <<140, 82, 72>>,
   oklch |-> <<450, CHROMA.STRONG_MIN, 25>>]

\* picked.rgb is an array (the test of line 317 fails).
HasRgbArray(color) == "rgb" \in DOMAIN color

\* pickDestructiveColor without the test of lines 317-319.
pickDestructiveColorNoGuard(p) ==
  IF "destructiveCandidates" \notin DOMAIN p \/ Len(p.destructiveCandidates) = 0
    THEN { DEFAULT_DESTRUCTIVE }
    ELSE LET sorted == sortByChroma(p.destructiveCandidates, "asc")
         IN  pickRandom(SubSeq(sorted, 1, Max(1, CeilHalf(Len(sorted)))))

\* scheme/playful.js pickDestructiveColor(p), lines 303-322: every value it
\* can return, over the outcomes of the random pick.
pickDestructiveColor(p) ==
  IF "destructiveCandidates" \notin DOMAIN p \/ Len(p.destructiveCandidates) = 0
    THEN { DEFAULT_DESTRUCTIVE }
    ELSE LET candidates == p.destructiveCandidates
             sorted == sortByChroma(candidates, "asc")
             mutedHalf == SubSeq(sorted, 1, Max(1, CeilHalf(Len(sorted))))
             picks == IF pickRandom(mutedHalf) = {} THEN { candidates[1] }
                      ELSE pickRandom(mutedHalf)
         IN  { IF HasRgbArray(picked) THEN picked ELSE DEFAULT_DESTRUCTIVE :
                 picked \in picks }

\* Colours of palette files: reds of several chromas, one of them stored
\* without its rgb entry, a grey and a teal.
PaletteFileColors ==
  { Color("brick", <<170, 90, 90>>, <<562, 105, 21>>),
    Color("rust", <<150, 90, 80>>, <<533, 81, 30>>),
    Color("crimson", <<200, 40, 60>>, <<545, 194, 21>>),
    [name |-> "ghost", oklch |-> <<540, 60, 20>>],
    Gray("ash", 70, 394),
    Color("teal", <<0, 120, 105>>, <<513, 93, 180>>) }

\* Longest palette classified for pickDestructiveColor.
MaxClassified == 3

ClassifiedInputs == UNION { [1..n -> PaletteFileColors] : n \in 0..MaxClassified }

\* pickDestructiveColor(classifyPalette(cols)) as applyConfiguration and
\* generateScheme call it.
CallPickDestructiveColor ==
  /\ LibIdle
  /\ \E cols \in ClassifiedInputs :
     LET p == [destructiveCandidates |-> DestructiveCandidates(cols), all |-> cols]
     IN  /\ call' = [fn |-> "pickDestructiveColor", p |-> p]
         /\ ret' \in pickDestructiveColor(p)
         /\ UNCHANGED <<enumVars, result, cacheVars, editorVars, guideVars>>

\* getTone with the light threshold of validate.js (L >= LIGHT_MIN).
getToneLightInclusive(L) ==
  IF L <= TONE.DARK_MAX THEN "dark"
  ELSE IF L >= TONE.LIGHT_MIN THEN "light"
  ELSE "mid"

\* colors.js getTone(L), lines 73-77.
getTone(L) ==
  IF L <= TONE.DARK_MAX THEN "dark"
  ELSE IF L > TONE.LIGHT_MIN THEN "light"
  ELSE "mid"

\* colors.js getChromaClass(C), lines 84-88.
getChromaClass(C) ==
  IF C < CHROMA.NEUTRAL_MAX THEN "neutral"
  ELSE IF C < CHROMA.STRONG_MIN THEN "muted"
  ELSE "vivid"

\* OKLCH lightness 0..1 and chroma 0..0.4, in thousandths.
Lightnesses == 0..1000

Chromas == 0..400

\* colors.js classifyPalette(colors), lines 128-167: every colour goes to the
\* bucket named by its tone and its chroma class.
classifyPalette(cols) ==
  LET Bucket(tone, chroma) ==
        SelectSeq(cols, LAMBDA color : /\ getTone(color.oklch[1]) = tone
                                       /\ getChromaClass(color.oklch[2]) = chroma)
  IN  [darkNeutrals |-> Bucket("dark", "neutral"),
       midNeutrals |-> Bucket("mid", "neutral"),
       lightNeutrals |-> Bucket("light", "neutral"),
       darkMuted |-> Bucket("dark", "muted"),
       midMuted |-> Bucket("mid", "muted"),
       lightMuted |-> Bucket("light", "muted"),
       darkVivid |-> Bucket("dark", "vivid"),
       midVivid |-> Bucket("mid", "vivid"),
       lightVivid |-> Bucket("light", "vivid"),
       destructiveCandidates |-> DestructiveCandidates(cols),
       all |-> cols]

CallGetTone ==
  /\ LibIdle
  /\ \E L \in Lightnesses :
     /\ call' = [fn |-> "getTone", L |-> L]
     /\ ret' = getTone(L)
     /\ UNCHANGED <<enumVars, result, cacheVars, editorVars, guideVars>>

CallGetChromaClass ==
  /\ LibIdle
  /\ \E C \in Chromas :
     /\ call' = [fn |-> "getChromaClass", C |-> C]
     /\ ret' = getChromaClass(C)
     /\ UNCHANGED <<enumVars, result, cacheVars, editorVars, guideVars>>

\* Hues in [0, 360), whole degrees.
Hues == 0..359

CallHueDifference ==
  /\ LibIdle
  /\ \E h1 \in Hues, h2 \in Hues :
     /\ call' = [fn |-> "hueDifference", h1 |-> h1, h2 |-> h2]
     /\ ret' = hueDifference(h1, h2)
     /\ UNCHANGED <<enumVars, result, cacheVars, editorVars, guideVars>>

\* A call filterByConstraint(colors, constraint, deps) for a token with a
\* dependent lightness rule, deps binding any colors of the palette to the
\* tokens the constraint names.
CallFilterByConstraint ==
  /\ LibIdle
  /\ \E m \in Modes, i \in 1..Len(TOKEN_ORDER) :
        LET constraint == ConstraintsFor(m)[TOKEN_ORDER[i]]
        IN  /\ "minOf" \in DOMAIN constraint.lightness
            /\ \E deps \in [ReferencedTokens(constraint) -> Items(BasePalette)] :
                  /\ call' = [fn |-> "filterByConstraint", colors |-> BasePalette,
                              constraint |-> constraint, deps |-> deps]
                  /\ ret' = filterByConstraint(BasePalette, constraint, deps)
  /\ UNCHANGED <<enumVars, result, cacheVars, editorVars, guideVars>>

\* The lightness values, in steps of 0.01, that the search can have bound to
\* the tokens in `needed` among the first k tokens: each value lies in the
\* range its token's lightness rule gives for the values bound before it.
RECURSIVE LightnessDeps(_, _, _)
LightnessDeps(k, needed, m) ==
  IF k = 0 THEN { << >> }
  ELSE IF TOKEN_ORDER[k] \notin needed THEN LightnessDeps(k - 1, needed, m)
  ELSE UNION { LET lRange == LightnessRange(ConstraintsFor(m)[TOKEN_ORDER[k]], deps)
               IN  { (TOKEN_ORDER[k] :> [oklch |-> << 10 * n, 0, 0 >>]) @@ deps :
                       n \in { x \in 0..100 : lRange.min <= 10 * x /\ 10 * x <= lRange.max } } :
               deps \in LightnessDeps(k - 1, needed, m) }

\* The tokens whose lightness decides the range of a token's rule: those the
\* rule reads, and those their rules read.
RECURSIVE LightnessAncestors(_, _)
LightnessAncestors(token, m) ==
  LET l == ConstraintsFor(m)[token].lightness
  IN  IF "minOf" \in DOMAIN l
        THEN {l.minOf, l.maxOf} \cup LightnessAncestors(l.minOf, m)
                                \cup LightnessAncestors(l.maxOf, m)
        ELSE {}

\* constraint.lightness(deps) at a node of the search, lines 47-49.
CallLightnessRule ==
  /\ LibIdle
  /\ \E m \in Modes, i \in 1..Len(TOKEN_ORDER) :
        LET token == TOKEN_ORDER[i]
        IN  /\ "minOf" \in DOMAIN ConstraintsFor(m)[token].lightness
            /\ \E deps \in LightnessDeps(i - 1, LightnessAncestors(token, m), m) :
                  /\ call' = [fn |-> "lightness", token |-> token, mode |-> m, deps |-> deps]
                  /\ ret' = LightnessRange(ConstraintsFor(m)[token], deps)
  /\ UNCHANGED <<enumVars, result, cacheVars, editorVars, guideVars>>

\* The caller is done with the value returned.
LibReturn ==
  /\ call.fn # "none"
  /\ call' = [fn |-> "none"]
  /\ ret' = Null
  /\ UNCHANGED <<enumVars, result, cacheVars, editorVars, guideVars>>

LibInit ==
  /\ EnumeratorIdle
  /\ LibIdle
  /\ EditorIdle
  /\ GuideIdle

LibNext ==
  \/ CallValidateCounted
  \/ CallValidateNoColors
  \/ CallPickDestructiveColor
  \/ CallGetTone
  \/ CallGetChromaClass
  \/ CallHueDifference
  \/ CallFilterByConstraint
  \/ CallLightnessRule
  \/ LibReturn

\* Calls of the pure library functions, in any order.
LibSpec == LibInit /\ [][LibNext]_vars

(***************************************************************************)
(* editor/state.js, editor/events.js                                       *)
(***************************************************************************)

STORAGE_KEY == "colorstory_draft"

\* Numbers outside the integers that the editor can hold, and the null JSON
\* writes for them.
Infinity == 1000000

NaN == 0 - 1

JsonNull == 0 - 2

\* JSON.stringify(value) for a palette object: the text, kept as the value it
\* parses to. A non-finite number is written as null.
JSONstringify(value) ==
  LET StringifyNumber(n) == IF n \in {Infinity, NaN} THEN JsonNull ELSE n
      StringifyColor(color) ==
        [ f \in DOMAIN color |->
            IF f \in {"rgb", "oklch"}
            THEN [ i \in 1..Len(color[f]) |-> StringifyNumber(color[f][i]) ]
            ELSE color[f] ]
  IN  << "json",
         IF "colors" \in DOMAIN value
         THEN [ value EXCEPT !.colors = [ i \in 1..Len(@) |-> StringifyColor(@[i]) ] ]
         ELSE value >>

JSONparse(text) == text[2]

\* localStorage.getItem(STORAGE_KEY) !== null.
HasDraft == \E item \in localStorage : item[1] = STORAGE_KEY

\* state.js loadDraft(), lines 190-200, for a stored draft.
loadDraft == JSONparse((CHOOSE item \in localStorage : item[1] = STORAGE_KEY)[2])

\* state.js saveDraft(), lines 182-184: the storage after the call.
saveDraft(palette) == { << STORAGE_KEY, JSONstringify(palette) >> }

\* convert.js parseColorString(str), lines 129-158, on the sample inputs;
\* << >> stands for null. "rgb(99..9 0 0)" stands for a first channel of
\* several hundred digits, which parseInt reads as Infinity.
parseColorString(str) ==
  CASE str = "#000000" -> << 0, 0, 0 >>
    [] str = "#ff0000" -> << 255, 0, 0 >>
    [] str = "rgb(99..9 0 0)" -> << Infinity, 0, 0 >>
    [] OTHER -> << >>

\* convert.js rgbToOklch(rgb), lines 61-72, on the sample colors (thousandths,
\* degrees); Infinity in a channel gives NaN in every component.
rgbToOklch(rgb) ==
  CASE rgb = << 0, 0, 0 >> -> << 0, 0, 0 >>
    [] rgb = << 255, 0, 0 >> -> << 628, 258, 29 >>
    [] OTHER -> << NaN, NaN, NaN >>

\* The id events.js derives from the name typed (lines 93-97): lower case,
\* every run of characters outside [a-z0-9_] one underscore, no underscore at
\* either end.
DerivedId(value) ==
  CASE value = "Sunset Sky" -> "sunset_sky"
    [] value = "--Dusk!" -> "dusk"
    [] OTHER -> ""

\* What fetch(`/palettes/${id}.json`) followed by res.json() gives: the parsed
\* data, or an exception (no such file, or a body that is not JSON).
PaletteFiles ==
  [ dusk |-> [ ok |-> TRUE,
               data |-> [ id |-> "dusk", name |-> "Dusk", created |-> "2024-01-01",
                          tags |-> Null,
                          colors |-> << Color("ink", << 0, 0, 0 >>, << 0, 0, 0 >>) >> ] ],
    twins |-> [ ok |-> TRUE,
                data |-> [ id |-> "twins", name |-> "Twins", created |-> "2024-01-01",
                           tags |-> Null,
                           colors |-> << Color("rose", << 255, 0, 0 >>, << 628, 258, 29 >>),
                                         Color("red", << 255, 0, 0 >>, << 628, 258, 29 >>) >> ] ],
    ghost |-> [ ok |-> TRUE,
                data |-> [ id |-> "ghost", name |-> "Ghost", created |-> "2024-01-01",
                           tags |-> Null,
                           colors |-> << [ name |-> "ghost", oklch |-> << 540, 60, 20 >> ] >> ] ],
    _index |-> [ ok |-> TRUE, data |-> [ palettes |-> << "dusk", "twins", "ghost" >> ] ],
    gone |-> [ ok |-> FALSE ] ]

\* The most colors the editor's palette is given, and the most loads under way.
MaxColors == 2

MaxPending == 2

\* state.js findDuplicateColor(rgb), lines 61-68: exists.
findDuplicateColor(rgb) ==
  \E i \in 1..Len(state.palette.colors) : state.palette.colors[i].rgb = rgb

\* state.js findAllDuplicates(colors), lines 75-89, throws: colors is not
\* iterable, or a color has no rgb to join.
findAllDuplicatesThrows(palette) ==
  \/ "colors" \notin DOMAIN palette
  \/ \E i \in 1..Len(palette.colors) : "rgb" \notin DOMAIN palette.colors[i]

\* state.js findAllDuplicates(colors): the positions of the colors whose rgb
\* an earlier color has.
findAllDuplicates(cols) ==
  { i \in 1..Len(cols) : \E j \in 1..(i - 1) : cols[j].rgb = cols[i].rgb }

\* events.js 'click' on add-color: handleAddColor (lines 142-153) and
\* state.js addColor (lines 156-177). Reading colors of a palette that has
\* none, or rgb of a color that has none, throws and changes nothing.
AddColor ==
  /\ UNCHANGED << enumVars, result, cacheVars, libVars, guideVars >>
  /\ \E n \in {"ink", "rose", ""},
        str \in {"#000000", "#ff0000", "rgb(99..9 0 0)", "nope"} :
     LET rgb == parseColorString(str)
     IN  IF n = "" \/ rgb = << >>
         THEN /\ lastOp' = "addRejected"
              /\ UNCHANGED << state, localStorage, pending >>
         ELSE /\ "colors" \in DOMAIN state.palette
              /\ \A i \in 1..Len(state.palette.colors) : "rgb" \in DOMAIN state.palette.colors[i]
              /\ IF findDuplicateColor(rgb)
                 THEN /\ lastOp' = "addRejected"
                      /\ UNCHANGED << state, localStorage, pending >>
                 ELSE /\ Len(state.palette.colors) < MaxColors
                      /\ state' = [ state EXCEPT !.palette.colors =
                                       Append(@, Color(n, rgb, rgbToOklch(rgb))) ]
                      /\ localStorage' = saveDraft(state'.palette)
                      /\ lastOp' = "add"
                      /\ UNCHANGED pending

\* events.js 'click' on a swatch's delete button, lines 130-134.
DeleteColor ==
  /\ UNCHANGED << enumVars, result, cacheVars, libVars, guideVars >>
  /\ "colors" \in DOMAIN state.palette
  /\ \E index \in 1..Len(state.palette.colors) :
        /\ state' = [ state EXCEPT !.palette.colors =
                         SubSeq(@, 1, index - 1) \o SubSeq(@, index + 1, Len(@)) ]
        /\ localStorage' = saveDraft(state'.palette)
        /\ lastOp' = "delete"
        /\ UNCHANGED pending

\* events.js 'input' on palette-name, lines 92-98.
Rename ==
  \E value \in {"Sunset Sky", "--Dusk!", ""} :
     /\ UNCHANGED << enumVars, result, cacheVars, libVars, guideVars >>
     /\ state' = [ state EXCEPT !.palette =
                      [ f \in DOMAIN @ \cup {"name", "id"} |->
                          CASE f = "name" -> value
                            [] f = "id" -> DerivedId(value)
                            [] OTHER -> @[f] ] ]
     /\ localStorage' = saveDraft(state'.palette)
     /\ lastOp' = "rename"
     /\ UNCHANGED pending

\* events.js 'change' on load-palette with no palette selected, lines 77-84
\* (the user confirms when asked).
NewPalette ==
  /\ UNCHANGED << enumVars, result, cacheVars, libVars, guideVars >>
  /\ "colors" \in DOMAIN state.palette
  /\ state' = [ state EXCEPT !.palette = createEmptyPalette ]
  /\ localStorage' = saveDraft(state'.palette)
  /\ lastOp' = "new"
  /\ UNCHANGED pending

\* events.js 'click' on clear-draft, lines 119-123 (the user confirms).
ClearDraft ==
  /\ UNCHANGED << enumVars, result, cacheVars, libVars, guideVars >>
  /\ state' = [ state EXCEPT !.palette = createEmptyPalette ]
  /\ localStorage' = {}
  /\ lastOp' = "clear"
  /\ UNCHANGED pending

\* events.js 'click' on toggle-mode, lines 116-118; state.js toggleMode.
ToggleMode ==
  /\ UNCHANGED << enumVars, result, cacheVars, libVars, guideVars >>
  /\ state' = [ state EXCEPT !.mode = IF @ = "light" THEN "dark" ELSE "light" ]
  /\ lastOp' = "toggle"
  /\ UNCHANGED << localStorage, pending >>

\* events.js 'change' on load-palette with a palette selected, lines 70-76,
\* or index.js init with ?load=id: loadPaletteById(id) up to its first await.
LoadPaletteStart ==
  \E id \in DOMAIN PaletteFiles \ { pending[i].id : i \in 1..Len(pending) } :
     /\ UNCHANGED << enumVars, result, cacheVars, libVars, guideVars >>
     /\ "colors" \in DOMAIN state.palette
     /\ Len(pending) < MaxPending
     /\ pending' = Append(pending, [id |-> id, settled |-> FALSE])
     /\ UNCHANGED << state, localStorage, lastOp >>

\* state.js loadPaletteById(id), lines 131-148, from the end of its awaits.
\* The responses arrive in any order; the calls are forgotten once all of
\* them have settled.
LoadPaletteFinish ==
  \E k \in 1..Len(pending) :
     LET file == PaletteFiles[pending[k].id]
         settledNow == [ pending EXCEPT ![k].settled = TRUE ]
     IN  /\ UNCHANGED << enumVars, result, cacheVars, libVars, guideVars >>
         /\ ~pending[k].settled
         /\ pending' = IF \A i \in 1..Len(settledNow) : settledNow[i].settled
                        THEN << >> ELSE settledNow
         /\ IF ~file.ok
            THEN /\ lastOp' = "loadFailed"
                 /\ UNCHANGED << state, localStorage >>
            ELSE /\ state' = [ state EXCEPT !.palette = file.data ]
                 /\ IF findAllDuplicatesThrows(file.data)
                    THEN /\ lastOp' = "loadFailed"
                         /\ UNCHANGED localStorage
                    ELSE /\ localStorage' = saveDraft(file.data)
                         /\ lastOp' = IF findAllDuplicates(file.data.colors) # {}
                                      THEN "loadedWithWarning" ELSE "loaded"

EditorInit == EnumeratorIdle /\ LibIdle /\ EditorIdle /\ GuideIdle

EditorNext ==
  \/ AddColor
  \/ DeleteColor
  \/ Rename
  \/ NewPalette
  \/ ClearDraft
  \/ ToggleMode
  \/ LoadPaletteStart
  \/ LoadPaletteFinish

EditorSpec == EditorInit /\ [][EditorNext]_vars

(***************************************************************************)
(* lib/colors.js selection helpers and lib/scheme/playful.js               *)
(* generateScheme.  A value that JavaScript picks at random, or that may   *)
(* be undefined, is the set of the values it can be (empty: undefined).    *)
(***************************************************************************)

\* a || b for colours: b when a is undefined.
OrElse(a, b) == IF a # {} THEN a ELSE b

Abs(x) == IF x >= 0 THEN x ELSE 0 - x

\* colors.js filterByLightness(colors, minL, maxL), lines 206-208.
filterByLightness(cols, minL, maxL) ==
  SelectSeq(cols, LAMBDA c : c.oklch[1] >= minL /\ c.oklch[1] <= maxL)

\* colors.js filterByContrast(colors, reference, threshold), lines 217-219,
\* with math.js meetsContrast; the threshold in tenths.
filterByContrast(cols, reference, tenths) ==
  SelectSeq(cols, LAMBDA c : RatioAtLeast(contrastRatio(c.rgb, reference.rgb), tenths))

\* colors.js findClosestByLightness(colors, targetL), lines 227-234: the
\* first colour whose lightness is nearest to the target.  The target is
\* given doubled, so that a mean of two lightnesses stays exact.
findClosestByLightness(cols, twiceTargetL) ==
  IF cols = << >> THEN {}
  ELSE LET Diff(i) == Abs(2 * cols[i].oklch[1] - twiceTargetL)
       IN  { cols[i] : i \in { k \in 1..Len(cols) :
                                 /\ \A j \in 1..Len(cols) : Diff(k) <= Diff(j)
                                 /\ \A j \in 1..(k - 1) : Diff(j) > Diff(k) } }

RECURSIVE InsertByLightness(_, _, _)
InsertByLightness(color, sorted, direction) ==
  IF sorted = << >> THEN << color >>
  ELSE LET diff == Head(sorted).oklch[1] - color.oklch[1]
           keep == IF direction = "asc" THEN diff <= 0 ELSE diff >= 0
       IN  IF keep THEN << Head(sorted) >> \o InsertByLightness(color, Tail(sorted), direction)
           ELSE << color >> \o sorted

\* colors.js sortByLightness(colors, direction), lines 257-262 (stable).
RECURSIVE sortByLightness(_, _)
sortByLightness(cols, direction) ==
  IF cols = << >> THEN << >>
  ELSE InsertByLightness(cols[Len(cols)],
                         sortByLightness(SubSeq(cols, 1, Len(cols) - 1), direction), direction)

\* arr.slice(0, n)
SliceTo(arr, n) == SubSeq(arr, 1, Min(n, Len(arr)))

\* |ratio - target| in units of 1e-4, the target in tenths.
RatioDistance(bg, color, targetTenths) ==
  LET ratio == contrastRatio(bg.rgb, color.rgb)
  IN  Abs((ratio[1] * 10000) \div ratio[2] - targetTenths * 1000)

RECURSIVE InsertByDistance(_, _, _, _)
InsertByDistance(color, sorted, bg, targetTenths) ==
  IF sorted = << >> THEN << color >>
  ELSE IF RatioDistance(bg, Head(sorted), targetTenths) <= RatioDistance(bg, color, targetTenths)
         THEN << Head(sorted) >> \o InsertByDistance(color, Tail(sorted), bg, targetTenths)
         ELSE << color >> \o sorted

RECURSIVE SortByDistance(_, _, _)
SortByDistance(cols, bg, targetTenths) ==
  IF cols = << >> THEN << >>
  ELSE InsertByDistance(cols[Len(cols)],
                        SortByDistance(SubSeq(cols, 1, Len(cols) - 1), bg, targetTenths),
                        bg, targetTenths)

\* colors.js pickBorderColor(bg, candidates, {minRatio, maxRatio,
\* targetRatio}), lines 287-311; the ratios in tenths.
pickBorderColor(bg, candidates, minRatio, maxRatio, targetRatio) ==
  IF candidates = << >> THEN {}
  ELSE LET Ratio(c) == contrastRatio(bg.rgb, c.rgb)
           inWindow == SelectSeq(candidates, LAMBDA c : /\ RatioAtLeast(Ratio(c), minRatio)
                                                        /\ RatioAtMost(Ratio(c), maxRatio))
           \* reduce((a, b) => a.ratio > b.ratio ? a : b): the last of the
           \* candidates with the highest ratio
           best == CHOOSE i \in 1..Len(candidates) :
                     /\ \A j \in 1..Len(candidates) :
                          Ratio(candidates[j])[1] * Ratio(candidates[i])[2]
                            <= Ratio(candidates[i])[1] * Ratio(candidates[j])[2]
                     /\ \A j \in (i + 1)..Len(candidates) :
                          Ratio(candidates[j])[1] * Ratio(candidates[i])[2]
                            < Ratio(candidates[i])[1] * Ratio(candidates[j])[2]
       IN  IF inWindow # << >>
             THEN pickRandom(SliceTo(SortByDistance(inWindow, bg, targetRatio), 3))
             ELSE { candidates[best] }

\* The schemes that bind one more token, to each colour that Options gives
\* for the tokens bound so far.
Bind(schemes, token, Options(_)) ==
  UNION { { (token :> color) @@ s : color \in Options(s) } : s \in schemes }

\* scheme/playful.js generateDarkScheme(p), lines 60-171: every scheme it
\* can return.  Of an empty palette bgApp is undefined and line 66 throws:
\* no scheme.
generateDarkScheme(p) ==
  LET all == p.all
      Bg(s) ==
        OrElse(pickRandom(IF Len(p.darkNeutrals) > 0 THEN p.darkNeutrals
                          ELSE SliceTo(sortByLightness(all, "asc"), 3)),
               { all[i] : i \in {1} \cap DOMAIN all })
      Surface(s) ==
        LET bgL == s.bgApp.oklch[1]
        IN  OrElse(pickRandom(filterByLightness(p.darkNeutrals \o p.midNeutrals,
                                                bgL + 60, bgL + 160)),
            OrElse(findClosestByLightness(p.darkNeutrals \o p.midNeutrals \o all,
                                          2 * (bgL + 100)),
                   { s.bgApp }))
      Elevated(s) ==
        LET surfaceL == s.bgSurface.oklch[1]
        IN  OrElse(pickRandom(filterByLightness(p.midNeutrals \o p.darkNeutrals,
                                                surfaceL + 60, surfaceL + 160)),
            OrElse(findClosestByLightness(p.midNeutrals \o all, 2 * (surfaceL + 100)),
                   { s.bgSurface }))
      TextPrimary(s) ==
        LET bgL == s.bgApp.oklch[1]
            textCandidates == SelectSeq(filterByLightness(all, 800, 1000),
                                        LAMBDA c : Abs(c.oklch[1] - bgL) >= 400)
            textWithContrast == filterByContrast(textCandidates, s.bgApp, 45)
            byLightness == sortByLightness(all, "desc")
            fallbackText == filterByContrast(SliceTo(byLightness, 5), s.bgApp, 30)
        IN  OrElse(pickRandom(IF Len(textWithContrast) > 0 THEN textWithContrast
                              ELSE textCandidates),
            OrElse(pickRandom(fallbackText),
            OrElse({ byLightness[i] : i \in {1} \cap DOMAIN byLightness },
                   { all[Len(all)] })))
      TextMuted(s) ==
        LET bgL == s.bgApp.oklch[1]
            textL == s.textPrimary.oklch[1]
            mutedCandidates == filterByLightness(all, bgL + 200, textL - 100)
            mutedWithContrast == filterByContrast(mutedCandidates, s.bgApp, 30)
        IN  OrElse(pickRandom(IF Len(mutedWithContrast) > 0 THEN mutedWithContrast
                              ELSE mutedCandidates),
            OrElse(findClosestByLightness(all, bgL + textL),
                   { s.textPrimary }))
      borderPool == p.midNeutrals \o p.lightNeutrals \o p.midMuted \o p.lightMuted
      BorderSubtle(s) ==
        OrElse(pickBorderColor(s.bgApp,
                               SelectSeq(borderPool, LAMBDA c : c.oklch[1] >= TONE.DARK_MAX),
                               15, 30, 20),
        OrElse(findClosestByLightness(SelectSeq(all, LAMBDA c : c.oklch[1] >= TONE.DARK_MAX),
                                      2 * 450),
               { s.bgSurface }))
      BorderStrong(s) ==
        OrElse(pickBorderColor(s.bgApp, SelectSeq(borderPool, LAMBDA c : c.oklch[1] >= 450),
                               30, 70, 40),
        OrElse(findClosestByLightness(SelectSeq(all, LAMBDA c : c.oklch[1] >= 450), 2 * 550),
               { s.bgElevated }))
      AccentSolid(s) ==
        LET chromaSorted == sortByChroma(all, "desc")
        IN  OrElse(pickRandom(SelectSeq(p.midVivid \o p.darkVivid \o p.lightVivid,
                      LAMBDA c : /\ Abs(c.oklch[1] - s.bgApp.oklch[1]) >= 150
                                 /\ hueDifference(c.oklch[3], s.bgApp.oklch[3]) > 15)),
            OrElse({ chromaSorted[i] : i \in {1} \cap DOMAIN chromaSorted },
                   { all[(Len(all) \div 2) + 1] }))
      AccentSoft(s) ==
        OrElse(pickRandom(SelectSeq(p.midMuted \o p.lightMuted \o p.darkMuted,
                      LAMBDA c : hueDifference(c.oklch[3], s.accentSolid.oklch[3]) < 30)),
        OrElse(pickRandom(p.midMuted \o p.lightMuted),
        OrElse(findClosestByLightness(all, 2 * 500),
               { s.accentSolid })))
      Destructive(s) == pickDestructiveColor(p)
  IN  Bind(Bind(Bind(Bind(Bind(Bind(Bind(Bind(Bind(Bind({ << >> },
        "bgApp", Bg), "bgSurface", Surface), "bgElevated", Elevated),
        "textPrimary", TextPrimary), "textMuted", TextMuted),
        "borderSubtle", BorderSubtle), "borderStrong", BorderStrong),
        "accentSolid", AccentSolid), "accentSoft", AccentSoft),
        "destructive", Destructive)

\* scheme/playful.js generateLightScheme(p), lines 178-288: every scheme it
\* can return.
generateLightScheme(p) ==
  LET all == p.all
      Bg(s) ==
        LET bgCandidates == filterByLightness(p.lightNeutrals, 900, 1000)
        IN  OrElse(pickRandom(IF Len(bgCandidates) > 0 THEN bgCandidates
                              ELSE SliceTo(sortByLightness(all, "desc"), 3)),
                   { all[i] : i \in {Len(all)} \cap DOMAIN all })
      Surface(s) ==
        LET bgL == s.bgApp.oklch[1]
        IN  OrElse(pickRandom(filterByLightness(
                                p.lightNeutrals \o p.midNeutrals \o p.lightMuted,
                                bgL - 160, bgL - 60)),
            OrElse(findClosestByLightness(p.lightNeutrals \o p.midNeutrals \o all,
                                          2 * (bgL - 100)),
                   { s.bgApp }))
      Elevated(s) ==
        LET surfaceL == s.bgSurface.oklch[1]
        IN  OrElse(pickRandom(filterByLightness(
                                p.midNeutrals \o p.lightNeutrals \o p.midMuted,
                                surfaceL - 160, surfaceL - 60)),
            OrElse(findClosestByLightness(p.midNeutrals \o all, 2 * (surfaceL - 100)),
                   { s.bgSurface }))
      TextPrimary(s) ==
        LET bgL == s.bgApp.oklch[1]
            textCandidates == SelectSeq(filterByLightness(all, 0, 250),
                                        LAMBDA c : Abs(c.oklch[1] - bgL) >= 400)
            textWithContrast == filterByContrast(textCandidates, s.bgApp, 45)
            byLightness == sortByLightness(all, "asc")
            fallbackText == filterByContrast(SliceTo(byLightness, 5), s.bgApp, 30)
        IN  OrElse(pickRandom(IF Len(textWithContrast) > 0 THEN textWithContrast
                              ELSE textCandidates),
            OrElse(pickRandom(fallbackText),
            OrElse({ byLightness[i] : i \in {1} \cap DOMAIN byLightness },
                   { all[1] })))
      TextMuted(s) ==
        LET bgL == s.bgApp.oklch[1]
            textL == s.textPrimary.oklch[1]
            mutedCandidates == filterByLightness(all, textL + 100, bgL - 200)
            mutedWithContrast == filterByContrast(mutedCandidates, s.bgApp, 30)
        IN  OrElse(pickRandom(IF Len(mutedWithContrast) > 0 THEN mutedWithContrast
                              ELSE mutedCandidates),
            OrElse(findClosestByLightness(all, bgL + textL),
                   { s.textPrimary }))
      borderPool == p.midNeutrals \o p.darkNeutrals \o p.midMuted \o p.darkMuted
      BorderSubtle(s) ==
        OrElse(pickBorderColor(s.bgApp, SelectSeq(borderPool, LAMBDA c : c.oklch[1] <= 650),
                               15, 30, 20),
        OrElse(findClosestByLightness(SelectSeq(all, LAMBDA c : c.oklch[1] <= 650), 2 * 550),
               { s.bgSurface }))
      BorderStrong(s) ==
        OrElse(pickBorderColor(s.bgApp, SelectSeq(borderPool, LAMBDA c : c.oklch[1] <= 550),
                               30, 70, 40),
        OrElse(findClosestByLightness(SelectSeq(all, LAMBDA c : c.oklch[1] <= 550), 2 * 450),
               { s.bgElevated }))
      AccentSolid(s) ==
        LET chromaSorted == sortByChroma(all, "desc")
        IN  OrElse(pickRandom(SelectSeq(p.midVivid \o p.darkVivid \o p.lightVivid,
                      LAMBDA c : /\ Abs(c.oklch[1] - s.bgApp.oklch[1]) >= 150
                                 /\ hueDifference(c.oklch[3], s.bgApp.oklch[3]) > 15)),
            OrElse({ chromaSorted[i] : i \in {1} \cap DOMAIN chromaSorted },
                   { all[(Len(all) \div 2) + 1] }))
      AccentSoft(s) ==
        OrElse(pickRandom(SelectSeq(p.midMuted \o p.lightMuted \o p.darkMuted,
                      LAMBDA c : hueDifference(c.oklch[3], s.accentSolid.oklch[3]) < 30)),
        OrElse(pickRandom(p.midMuted \o p.lightMuted),
        OrElse(findClosestByLightness(all, 2 * 500),
               { s.accentSolid })))
      Destructive(s) == pickDestructiveColor(p)
  IN  Bind(Bind(Bind(Bind(Bind(Bind(Bind(Bind(Bind(Bind({ << >> },
        "bgApp", Bg), "bgSurface", Surface), "bgElevated", Elevated),
        "textPrimary", TextPrimary), "textMuted", TextMuted),
        "borderSubtle", BorderSubtle), "borderStrong", BorderStrong),
        "accentSolid", AccentSolid), "accentSoft", AccentSoft),
        "destructive", Destructive)

\* scheme/playful.js generateScheme(colors, mode), lines 45-53.
generateScheme(cols, m) ==
  IF m = "dark" THEN generateDarkScheme(classifyPalette(cols))
  ELSE generateLightScheme(classifyPalette(cols))

\* scheme/playful.js applyConfiguration(config, colors), lines 387-393: the
\* configuration's tokens and a destructive colour.
applyConfiguration(config, cols) ==
  { ("destructive" :> d) @@ config.tokens : d \in pickDestructiveColor(classifyPalette(cols)) }


(***************************************************************************)
(* style-guide/render.js and style-guide/index.js                          *)
(***************************************************************************)

\* The tokens whose .rgb applyScheme reads without a guard (render.js
\* lines 20-41).
AppliedTokens ==
  { "bgApp", "bgSurface", "bgElevated", "textPrimary", "textMuted", "textOnAccent",
    "borderSubtle", "borderStrong", "accentSolid", "accentSoft" }

\* render.js applyScheme(scheme), lines 16-45: the custom properties are
\* set, or reading .rgb of an undefined token throws.
applyScheme(scheme) ==
  IF AppliedTokens \subseteq DOMAIN scheme THEN "applied" ELSE "TypeError"

\* The palettes /palettes/<id>.json that the page is opened with.
GuidePalettes == { LightPalette }

\* The scheme slots that a colour is dropped on.
GuideDropSlots == { "bgApp", "textOnAccent" }

\* The colours that are disabled and enabled: 'steel', which one of the two
\* light configurations of LightPalette uses, and 'lagoon', which none uses.
GuideToggleIndexes == { 6, 8 }

\* Bound on the number of colours disabled at one time.
MaxDisabled == 1

\* index.js lines 47-48 and 107-108: the colours that are not disabled, or
\* all of them when every colour is disabled.  Indices count from 0.
ActiveColors(g) ==
  LET activeColors == SelectSeq([i \in 1..Len(g.palette) |-> [at |-> i - 1, color |-> g.palette[i]]],
                                LAMBDA e : e.at \notin g.disabledColors)
  IN  IF Len(activeColors) > 0 THEN [i \in 1..Len(activeColors) |-> activeColors[i].color]
      ELSE g.palette

\* index.js clearOverridesForColor(colorIndex), lines 64-72.
clearOverridesForColor(overrides, palette, colorIndex) ==
  [slot \in { s \in DOMAIN overrides : overrides[s] # palette[colorIndex + 1] } |->
     overrides[slot]]

\* index.js regenerateScheme(), lines 46-58, given what
\* getValidConfigurations returned: the base schemes it can store.
regenerateScheme(g, configs) ==
  IF g.selectedConfigIndex # NullIndex /\ g.selectedConfigIndex < Len(configs)
    THEN applyConfiguration(configs[g.selectedConfigIndex + 1], ActiveColors(g))
    ELSE generateScheme(ActiveColors(g), g.mode)

\* index.js render(), lines 110-126, from the return of
\* getValidConfigurations: the module states it can leave.
Rendered(g, configs) ==
  { LET scheme == [slot \in DOMAIN cached |->
                     IF slot \in DOMAIN g.schemeOverrides THEN g.schemeOverrides[slot]
                     ELSE cached[slot]]
    IN  [g EXCEPT !.phase = "ready", !.validConfigurations = configs,
                  !.cachedScheme = cached, !.scheme = scheme] :
      cached \in IF g.cachedScheme # << >> THEN { g.cachedScheme }
                 ELSE regenerateScheme(g, configs) }

\* index.js render(), lines 103-126, for module variables g and cache slot
\* cache: on a hit the page is rendered at once, on a miss
\* enumerateConfigurations is entered first.
Render(g, cache) ==
  LET cols == ActiveColors(g)
  IN  IF CacheMiss(cache, hashPalette(cols), g.mode)
        THEN /\ configCache' = [cache EXCEPT !.paletteHash = Str(hashPalette(cols)),
                                             !.mode = Str(g.mode)]
             /\ EnterEnumerate(cols, g.mode)
             /\ guide' = [g EXCEPT !.phase = "rendering", !.scheme = << >>]
             /\ UNCHANGED <<result, returned, enumCalls, ops, log, libVars, editorVars>>
        ELSE /\ configCache' = cache
             /\ guide' \in Rendered(g, cache.configurations.items)
             /\ UNCHANGED <<enumVars, result, returned, enumCalls, ops, log, libVars,
                            editorVars>>

\* render() after enumerateConfigurations has returned: playful.js lines
\* 366-369 store and return the list, index.js lines 110-126 follow.
GuideRenderFinish ==
  /\ guide.phase = "rendering"
  /\ pc = "return"
  /\ stack = << >>
  /\ configCache' = [configCache EXCEPT !.configurations = Array(0, configurations)]
  /\ guide' \in Rendered(guide, configurations)
  /\ pc' = "idle"
  /\ UNCHANGED <<colors, mode, tokenIndex, stack, assigned, configurations, seenIds, sliced,
                 result, returned, enumCalls, ops, log, libVars, editorVars>>

\* index.js init(), lines 78-101, with the palette fetched: the mode is the
\* system's preference, the listeners are set up, the page is rendered.
GuideInit ==
  /\ guide.phase = "loading"
  /\ pc = "idle"
  /\ \E palette \in GuidePalettes, m \in Modes :
       Render([guide EXCEPT !.palette = palette, !.mode = m], configCache)

\* click on #toggle-mode, lines 405-412.
GuideToggleMode ==
  /\ guide.phase = "ready"
  /\ Render([guide EXCEPT !.mode = IF guide.mode = "light" THEN "dark" ELSE "light",
                          !.selectedConfigIndex = NullIndex, !.cachedScheme = << >>,
                          !.schemeOverrides = << >>],
            ClearedCache(configCache, 0))

\* click on #randomize-unconstrained, lines 419-423.
GuideRandomize ==
  /\ guide.phase = "ready"
  /\ Render([guide EXCEPT !.selectedConfigIndex = NullIndex, !.cachedScheme = << >>,
                          !.schemeOverrides = << >>],
            configCache)

\* click on #reload-configs, lines 424-428.
GuideReload ==
  /\ guide.phase = "ready"
  /\ Render([guide EXCEPT !.cachedScheme = << >>, !.schemeOverrides = << >>],
            ClearedCache(configCache, 0))

\* click on #reset-all-colors with a colour disabled, lines 429-435.
GuideResetAll ==
  /\ guide.phase = "ready"
  /\ guide.disabledColors # {}
  /\ Render([guide EXCEPT !.disabledColors = {}, !.selectedConfigIndex = NullIndex,
                          !.cachedScheme = << >>, !.schemeOverrides = << >>],
            ClearedCache(configCache, 0))

\* click on a configuration button, lines 436-442; the buttons are those of
\* the list rendered last.
GuideSelectConfig ==
  /\ guide.phase = "ready"
  /\ \E idx \in 0..(Len(guide.validConfigurations) - 1) :
       Render([guide EXCEPT !.selectedConfigIndex = idx, !.cachedScheme = << >>,
                            !.schemeOverrides = << >>],
              configCache)

\* click on the remove button of a swatch, lines 451-457.
GuideRemoveColor ==
  /\ guide.phase = "ready"
  /\ Cardinality(guide.disabledColors) < MaxDisabled
  /\ \E idx \in GuideToggleIndexes \ guide.disabledColors :
       Render([guide EXCEPT !.disabledColors = @ \cup {idx},
                            !.schemeOverrides = clearOverridesForColor(@, guide.palette, idx)],
              ClearedCache(configCache, 0))

\* click on an item of the colour list, lines 458-468: the colour is
\* enabled if it was disabled, and disabled otherwise.
GuideToggleColor ==
  /\ guide.phase = "ready"
  /\ \E idx \in GuideToggleIndexes :
       IF idx \in guide.disabledColors
         THEN Render([guide EXCEPT !.disabledColors = @ \ {idx}],
                     ClearedCache(configCache, 0))
         ELSE /\ Cardinality(guide.disabledColors) < MaxDisabled
              /\ Render([guide EXCEPT !.disabledColors = @ \cup {idx},
                                      !.schemeOverrides =
                                        clearOverridesForColor(@, guide.palette, idx)],
                        ClearedCache(configCache, 0))

\* drop of the palette's first colour on a scheme slot, lines 524-536.
GuideDrop ==
  /\ guide.phase = "ready"
  /\ \E slot \in GuideDropSlots :
       Render([guide EXCEPT !.schemeOverrides =
                 (slot :> guide.palette[1]) @@ @],
              configCache)

\* The style-guide page: the palette is fetched, then the user clicks and
\* drops.  A handler runs to its end before the next event is taken.
GuideStart == EnumeratorIdle /\ LibIdle /\ EditorIdle /\ GuideIdle

GuideNext ==
  \/ GuideInit
  \/ Backtrack
  \/ GuideRenderFinish
  \/ GuideToggleMode
  \/ GuideRandomize
  \/ GuideReload
  \/ GuideResetAll
  \/ GuideSelectConfig
  \/ GuideRemoveColor
  \/ GuideToggleColor
  \/ GuideDrop

GuideSpec == GuideStart /\ [][GuideNext]_vars



\* C12 (as claimed; refuted by the code): every colour of a palette for
\* which validatePalette returns valid = true has an oklch array of three
\* elements.
C12_ValidMeansOklchClaimed ==
  (call.fn = "validatePalette" /\ ret.valid) =>
     \A i \in 1..Len(call.palette.colors) : HasOklchTriple(call.palette.colors[i])

\* C13 (as claimed; refuted by the code): pickDestructiveColor returns the
\* fixed default when destructiveCandidates is empty and a member of
\* destructiveCandidates when it is not.
C13_MemberWheneverCandidatesClaimed ==
  call.fn = "pickDestructiveColor" =>
     IF Len(call.p.destructiveCandidates) = 0
       THEN ret = DEFAULT_DESTRUCTIVE
       ELSE ret \in Items(call.p.destructiveCandidates)

\* C13 amended: pickDestructiveColor returns the fixed default when
\* destructiveCandidates is empty; when it is not, it returns a member of
\* destructiveCandidates that has an rgb array, or the fixed default, and
\* the default only if some candidate lacks its rgb array.
C13_MemberOrDefault ==
  call.fn = "pickDestructiveColor" =>
     LET candidates == Items(call.p.destructiveCandidates)
     IN  IF candidates = {}
           THEN ret = DEFAULT_DESTRUCTIVE
           ELSE \/ ret \in candidates /\ HasRgbArray(ret)
                \/ /\ ret = DEFAULT_DESTRUCTIVE
                   /\ \E c \in candidates : ~HasRgbArray(c)

\* Three candidates, the one picked is neither the first of the palette
\* nor the least chromatic.
C13_Witness ==
  /\ call.fn = "pickDestructiveColor"
  /\ Len(call.p.destructiveCandidates) = 3
  /\ \A i \in 1..3 : HasRgbArray(call.p.destructiveCandidates[i])
  /\ ret \in Items(call.p.destructiveCandidates)
  /\ ret # call.p.destructiveCandidates[1]
  /\ \E i \in 1..3 : call.p.destructiveCandidates[i].oklch[2] < ret.oklch[2]

\* The colour kinds of the palette guidelines (README, Palette Guidelines).
IsDarkNeutral(color) == color.oklch[1] <= 350 /\ color.oklch[2] < 40

IsMidNeutral(color) == color.oklch[1] > 350 /\ color.oklch[1] < 750 /\ color.oklch[2] < 40

IsLightNeutral(color) == color.oklch[1] >= 750 /\ color.oklch[2] < 40

IsStrongAccent(color) == color.oklch[2] >= 80

IsMutedAccent(color) == color.oklch[2] >= 40 /\ color.oklch[2] < 80

\* How many colours of the palette, among those carrying oklch values, are
\* of the kind.
NumberOf(palette, kind) ==
  LET IsKind(color) ==
        CASE kind = "darkNeutral" -> IsDarkNeutral(color)
          [] kind = "midNeutral" -> IsMidNeutral(color)
          [] kind = "lightNeutral" -> IsLightNeutral(color)
          [] kind = "strongAccent" -> IsStrongAccent(color)
          [] kind = "mutedAccent" -> IsMutedAccent(color)
  IN  Cardinality({ i \in 1..Len(palette.colors) :
                      HasOklchTriple(palette.colors[i]) /\ IsKind(palette.colors[i]) })

\* The palette meets the minimum requirements of the guidelines.
MeetsMinimums(palette) ==
  /\ "colors" \in DOMAIN palette
  /\ Len(palette.colors) >= 12
  /\ NumberOf(palette, "darkNeutral") >= 2
  /\ NumberOf(palette, "midNeutral") >= 2
  /\ NumberOf(palette, "lightNeutral") >= 2
  /\ NumberOf(palette, "strongAccent") >= 1

\* C14: validatePalette returns valid = true exactly when the palette has at
\* least 12 colours, 2 dark, 2 mid and 2 light neutrals and 1 strong accent;
\* a palette without a muted accent gets a warning for it and is valid or
\* not as the other requirements decide.
C14_ValidIffMinimums ==
  call.fn = "validatePalette" =>
     /\ ret.valid <=> MeetsMinimums(call.palette)
     /\ ("colors" \in DOMAIN call.palette /\ NumberOf(call.palette, "mutedAccent") = 0) =>
           /\ "mutedAccents" \in Items(ret.warnings)
           /\ "mutedAccents" \notin Items(ret.errors)

\* A palette of exactly 12 colours with the bare minimum of every required
\* kind and no muted accent is valid and carries the warning.
C14_Witness ==
  /\ call.fn = "validatePalette"
  /\ "colors" \in DOMAIN call.palette
  /\ Len(call.palette.colors) = 12
  /\ NumberOf(call.palette, "mutedAccent") = 0
  /\ NumberOf(call.palette, "strongAccent") >= 1
  /\ \A i \in 1..12 : HasOklchTriple(call.palette.colors[i])
  /\ ret.valid
  /\ "mutedAccents" \in Items(ret.warnings)

C17_ShortestArc ==
  call.fn = "hueDifference" =>
     LET d == IF call.h1 >= call.h2 THEN call.h1 - call.h2 ELSE call.h2 - call.h1
     IN  /\ ret = Min(d, 360 - d)
         /\ ret = hueDifference(call.h2, call.h1)
         /\ call.h1 = call.h2 => ret = 0
         /\ ret \in 0..180

\* A pair of hues whose shortest arc crosses 0 has been measured.
C17_Witness ==
  /\ call.fn = "hueDifference"
  /\ call.h1 = 350
  /\ call.h2 = 10
  /\ ret = 20

\* C16: after every editor operation that changes the palette (add, delete,
\* rename, load, new palette) the draft in localStorage equals state.palette;
\* after 'clear' the draft is absent and the palette is empty; and the draft
\* and the palette agree on every path of loadPaletteById, the failed load
\* included (the stored draft parses to state.palette, or nothing is stored
\* and the palette is empty).
C16_DraftEqualsPaletteClaimed ==
  /\ lastOp \in {"add", "delete", "rename", "new", "loaded", "loadedWithWarning"} =>
        HasDraft /\ loadDraft = state.palette
  /\ lastOp = "clear" => ~HasDraft /\ state.palette.colors = << >>
  /\ lastOp = "loadFailed" =>
        /\ "colors" \in DOMAIN state.palette
        /\ IF HasDraft THEN loadDraft = state.palette
           ELSE state.palette.colors = << >>

\* C18: in both tables every token a token's constraint names comes strictly
\* earlier in TOKEN_ORDER; hence at every node where candidates are filtered
\* all the tokens the current constraint names are assigned, so no check is
\* skipped and no lightness function reads an unassigned token.
C18_DependenciesComeEarlier ==
  /\ \A m \in {"dark", "light"} : \A i \in 1..Len(TOKEN_ORDER) :
        \A t \in ReferencedTokens(ConstraintsFor(m)[TOKEN_ORDER[i]]) :
           \E j \in 1..(i - 1) : TOKEN_ORDER[j] = t
  /\ (pc = "enter" /\ ~CapReached(configurations) /\ ~AtLeaf(tokenIndex)) =>
        ReferencedTokens(ConstraintsFor(mode)[TOKEN_ORDER[tokenIndex + 1]])
           \subseteq DOMAIN assigned

\* The search is about to filter the candidates of textMuted, whose
\* constraint names bgApp, bgSurface and textPrimary.
C18_Witness ==
  /\ pc = "enter"
  /\ ~CapReached(configurations)
  /\ tokenIndex = 4
  /\ TOKEN_ORDER[tokenIndex + 1] = "textMuted"
  /\ {"bgApp", "bgSurface", "textPrimary"} \subseteq DOMAIN assigned

\* C19: whenever backtrack(i, assigned) returns (candidates exhausted, leaf
\* reached or cap hit), assigned holds exactly TOKEN_ORDER[0..i-1] with the
\* colors it had on entry; at every node at depth i the map has exactly those
\* i keys; and it is empty when the top-level call returns.  The colors on
\* entry are the candidates the i enclosing loops are at.
C19_ScopedRollback ==
  LET depth == IF pc = "loop" THEN Len(stack) - 1 ELSE Len(stack)
      entry == [ t \in { TOKEN_ORDER[k] : k \in 1..depth } |->
                   LET frame == stack[CHOOSE k \in 1..depth : TOKEN_ORDER[k] = t]
                   IN  frame.candidates[frame.pos] ]
  IN  /\ pc \in {"enter", "loop", "return"} =>
           /\ depth = (IF pc = "loop" THEN stack[Len(stack)].tokenIndex ELSE tokenIndex)
           /\ \A k \in 1..depth : stack[k].tokenName = TOKEN_ORDER[k]
           /\ DOMAIN assigned = { TOKEN_ORDER[k] : k \in 1..depth }
           /\ \A t \in DOMAIN assigned : assigned[t] = entry[t]
      /\ (pc = "done" \/ (pc = "return" /\ stack = << >>)) => DOMAIN assigned = {}

\* A call in the middle of the search has returned because the cap was hit.
C19_Witness ==
  /\ pc = "return"
  /\ CapReached(configurations)
  /\ tokenIndex = 4
  /\ DOMAIN assigned = {"bgApp", "bgSurface", "bgElevated", "textPrimary"}

\* C20: once the 12th Configuration has been recorded, no further candidate
\* is filtered, shuffled or assigned to any token at any depth (no loop is
\* opened, no key is added to assigned, nothing more is recorded), and
\* enumerateConfigurations returns exactly those 12 Configurations.
C20_EagerAbort ==
  [][ (pc \in {"enter", "loop", "return"} /\ Len(configurations) >= 12) =>
        /\ configurations' = configurations
        /\ Len(configurations) = 12
        /\ Len(stack') <= Len(stack)
        /\ DOMAIN assigned' \subseteq DOMAIN assigned
        /\ pc' \in {"return", "done"}
        /\ pc' = "done" => result' = configurations ]_vars

\* The 12th Configuration has just been recorded at a leaf.
C20_Witness ==
  /\ pc = "return"
  /\ tokenIndex = Len(TOKEN_ORDER)
  /\ Len(stack) = Len(TOKEN_ORDER)
  /\ Len(configurations) = 12

\* C21: enumerateConfigurations terminates for every palette, mode and
\* shuffle outcome; the token index stays within 0..9, the recursion is never
\* deeper than the token count, and each node tries at most 6 candidates,
\* each a distinct color of the palette that passed the filter at that node.
\* Termination: the call is never stuck before it returns, and every step
\* moves the search forward in the lexicographic order of its position (per
\* depth: the candidate the loop is at, before or after its assignment; 0 on
\* entry of a node and 15 once it has returned), which has finitely many
\* values.
C21_TerminatesBounded ==
  /\ [] /\ tokenIndex \in 0..9
        /\ Len(stack) <= Len(TOKEN_ORDER)
        /\ pc # "done" => ENABLED Next
        /\ \A k \in 1..Len(stack) :
              LET frame == stack[k]
                  deps == [ t \in { TOKEN_ORDER[j] : j \in 1..frame.tokenIndex } |-> assigned[t] ]
              IN  /\ frame.tokenIndex = k - 1
                  /\ Len(frame.candidates) <= 6
                  /\ frame.pos \in 1..(Len(frame.candidates) + 1)
                  /\ \A a, b \in 1..Len(frame.candidates) :
                        a # b => frame.candidates[a] # frame.candidates[b]
                  /\ \A a \in 1..Len(frame.candidates) :
                        /\ frame.candidates[a] \in Items(colors)
                        /\ PassesConstraint(frame.candidates[a],
                                            ConstraintsFor(mode)[frame.tokenName], deps)
  /\ [][ LET Digit(stk, p, k) ==
               IF k <= Len(stk)
                 THEN IF k = Len(stk) /\ p = "loop"
                        THEN 2 * stk[k].pos - 1 ELSE 2 * stk[k].pos
               ELSE IF k = Len(stk) + 1
                 THEN CASE p = "return" -> 15 [] p = "done" -> 16 [] OTHER -> 0
               ELSE 0
         IN  \E k \in 1..(Len(TOKEN_ORDER) + 1) :
                /\ Digit(stack, pc, k) < Digit(stack', pc', k)
                /\ \A j \in 1..(k - 1) : Digit(stack, pc, j) = Digit(stack', pc', j) ]_vars

\* A call in which more than 6 colors passed the filter at some node has
\* returned.
C21_Witness ==
  /\ pc = "done"
  /\ sliced
  /\ result # << >>

C30_RangeNeverInfeasible ==
  call.fn = "lightness" => ret.min <= ret.max

\* The rule of borderStrong has been evaluated where the interval is
\* narrowest: borderSubtle at the top of its own range.
C30_Witness ==
  /\ call.fn = "lightness"
  /\ call.token = "borderStrong"
  /\ call.mode = "dark"
  /\ call.deps["borderSubtle"].oklch[1] = call.deps["textPrimary"].oklch[1] - 300
  /\ ret.max - ret.min = 100

\* C23 (as claimed; refuted by the code): in any sequence of
\* getValidConfigurations and clearConfigCache calls, every color bound in a
\* Configuration that getValidConfigurations(colors, mode) returns is an
\* element of that call's colors argument.
C23_ServedFromOwnPaletteClaimed ==
  \A i \in 1..Len(log) :
     log[i].op = "get" =>
        \A k \in 1..Len(log[i].items) :
           \A token \in DOMAIN log[i].items[k].tokens :
              log[i].items[k].tokens[token] \in Items(log[i].colors)

\* C24 (as claimed; refuted by the code): when enumerateConfigurations has
\* thrown during a getValidConfigurations miss, a later
\* getValidConfigurations call with the same arguments runs the enumerator
\* again and does not return the list that was stored before the failed call.
C24_NoStaleListAfterThrowClaimed ==
  \A i, j \in 1..Len(log) :
     (/\ i < j
      /\ log[i].op = "throw"
      /\ log[j].op = "get"
      /\ log[j].colors = log[i].colors
      /\ log[j].mode = log[i].mode) =>
        /\ log[j].calls > log[i].calls
        /\ log[j].ref # log[i].ref


\* C26 (as claimed; refuted by the code): when a palette is selected while
\* the fetch of an earlier selection is still pending, then at the moment
\* the last of these fetches has completed state.palette and the stored
\* draft are the palette selected last, whatever the order of the responses.
C26_LastSelectionWinsClaimed ==
  [][ (/\ Len(pending) >= 2
       /\ pending' = << >>
       /\ \A i \in 1..Len(pending) :
             /\ PaletteFiles[pending[i].id].ok
             /\ ~findAllDuplicatesThrows(PaletteFiles[pending[i].id].data)) =>
         LET last == PaletteFiles[pending[Len(pending)].id].data
         IN  /\ state'.palette = last
             /\ localStorage' = saveDraft(last) ]_vars


\* C27 (as claimed; refuted by the code): for a palette whose colours have
\* pairwise different names, a search in which no node had more than 6
\* colours pass the filter returns exactly min(12, N) Configurations, N
\* being the number of valid assignments, and all of them when N <= 12.
C27_ExhaustiveWithoutSliceClaimed ==
  (/\ pc = "done"
   /\ ~sliced
   /\ \A i, j \in 1..Len(colors) : i # j => colors[i].name # colors[j].name) =>
     LET valid == ValidAssignments(colors, mode)
     IN  /\ Len(result) = Min(MAX_CONFIGURATIONS, Cardinality(valid))
         /\ Cardinality(valid) <= MAX_CONFIGURATIONS =>
               { result[i].tokens : i \in 1..Len(result) } = valid


\* C29 (as claimed; refuted by the code): for a palette whose colours all
\* carry an oklch of three elements, the darkNeutrals, midNeutrals and
\* lightNeutrals counts of validatePalette are the sizes of the buckets of
\* the same names that classifyPalette makes, also at L = 0.35 and 0.75.
C29_ClassifiersAgreeClaimed ==
  (/\ call.fn = "validatePalette"
   /\ "colors" \in DOMAIN call.palette
   /\ \A i \in 1..Len(call.palette.colors) : HasOklchTriple(call.palette.colors[i])) =>
     LET buckets == classifyPalette(call.palette.colors)
     IN  /\ ret.counts.darkNeutrals = Len(buckets.darkNeutrals)
         /\ ret.counts.midNeutrals = Len(buckets.midNeutrals)
         /\ ret.counts.lightNeutrals = Len(buckets.lightNeutrals)


\* C28 (as claimed; refuted by the code): every scheme that render passes to
\* applyScheme defines the ten tokens applyScheme dereferences, so that
\* applyScheme does not fail on an undefined token.
C28_SchemeDefinesAppliedTokensClaimed ==
  guide.phase = "ready" =>
     /\ AppliedTokens \subseteq DOMAIN guide.scheme
     /\ applyScheme(guide.scheme) = "applied"

=============================================================================
